---- MODULE Spec2Model ----
(***************************************************************************)
(* Job orchestration and credit ledger of the audio-book backend.          *)
(*                                                                         *)
(* Every HTTP handler is a sequence of steps, one per call to the document *)
(* store (MongoDB), the task queue (Celery) or the blob store; each such   *)
(* call is atomic, and calls of concurrent requests interleave freely.     *)
(* Procs are the request slots (worker threads of the web server).         *)
(***************************************************************************)
EXTENDS Integers, Sequences, FiniteSets, TLC

VARIABLES
    credits,    \* users_collection: user -> "credits"
    jobs,       \* jobs_collection: job id -> job document
    queue,      \* Celery broker: the tasks submitted so far; a task's id is its index
    req,        \* the request each slot is serving: inputs, locals, position, response
    calls,      \* number of requests received so far
    payments,   \* payments_collection: reference -> payment document
    redis,      \* Redis: the rate-limit counter of one key
    blobs       \* blob store (Supabase bucket): path -> what is stored there

vars == <<credits, jobs, queue, req, calls, payments, redis, blobs>>

----------------------------------------------------------------------------
(* Program constants *)

UPLOAD_COST == 10
PAGE_COST == 1
MAX_PAGES == 4

\* core/config.py does not define MAX_PAGES_PER_JOB, which jobs/router.py imports:
\* the batch ceiling ("MaxPagesPerBatch") is taken from the specification, its value
\* chosen below MAX_PAGES so that a range can exceed it.
MAX_PAGES_PER_JOB == 2

----------------------------------------------------------------------------
(* Bounds of the model *)

MaxTasks == 3       \* tasks the broker accepts before it is unavailable for good
MaxCalls == 2       \* requests the server receives in one behaviour

Users == {"u1", "u2"}
Procs == {"p1", "p2"}
InitCredits == {1, 12}
AdminJob == "book"
UserJob == "job1"
JobIds == {AdminJob, UserJob}
\* values of <<start, end>>; an end of 0 stands for None and for 0 ("end or total")
Ranges == {<<1, 0>>, <<1, 1>>, <<1, 2>>, <<2, 3>>, <<0, 1>>, <<2, 1>>, <<3, 4>>}
\* task ids a caller may ask the status of
LookupIds == {1, 2}
\* page counts get_num_pages_from_bytes may return for an uploaded file
PageCounts == {1, MAX_PAGES + 1}

----------------------------------------------------------------------------
(* Documents *)

NoJob ==
    [exists |-> FALSE, user_id |-> "none", is_admin |-> FALSE, status |-> "none",
     num_pages |-> 0, updated_at |-> 0, task_ids |-> <<>>,
     required_credits |-> 0, has_pages |-> FALSE]

\* An admin library job as admin upload_pdf inserts it (no "status" field), with the
\* page map the page workers have written.
AdminLibraryJob ==
    [NoJob EXCEPT !.exists = TRUE, !.user_id = "admin", !.is_admin = TRUE,
                  !.num_pages = 1, !.required_credits = 1, !.has_pages = TRUE]

\* The job upload_pdf has inserted for a 3-page file of user u1.
UploadedJob ==
    [NoJob EXCEPT !.exists = TRUE, !.user_id = "u1", !.num_pages = 3,
                  !.status = "uploaded"]

IdleReq ==
    [op |-> "idle", pc |-> "idle", user |-> "none", job |-> "none",
     start |-> 0, end_arg |-> 0, end |-> 0, num_pages |-> 0, total_cost |-> 0,
     page |-> 0, task_ids |-> <<>>, result |-> "none",
     \* history of the call, read by the properties only
     debited |-> 0, refunded |-> 0, bal0 |-> 0, status0 |-> "none", gen0 |-> 0,
     task |-> 0, authorized |-> FALSE]

Finish(r, res) == [r EXCEPT !.pc = "done", !.result = res]

\* a slot takes a request when it serves none: at the start, or once it has responded
Free(p) == req[p].pc \in {"idle", "done"}

----------------------------------------------------------------------------
(* credits/service.py *)

CanDeductStrict(balance, amount) == balance > amount

\* the filter {"credits": {"$gte": amount}} of deduct_credits_atomic
CanDeduct(balance, amount) == balance >= amount

\* {"$inc": {"credits": -amount}}
Deduct(balance, amount) == balance - amount

AddNothing(balance, amount) == balance

\* add_credits: {"$inc": {"credits": amount}}
AddCredits(balance, amount) == balance + amount

----------------------------------------------------------------------------
(* start_job, jobs/router.py *)

StartFilterNoStatus(job, u) ==
    job.exists /\ job.user_id = u

\* filter of find_one_and_update: job_id, user_id and status "uploaded"
StartFilter(job, u) ==
    job.exists /\ job.user_id = u /\ job.status = "uploaded"

\* filter of the closing update_one: job_id and status "uploaded"
RecordFilter(job) ==
    job.exists /\ job.status = "uploaded"

\* end = end or total
EffectiveEnd(e, total) == IF e = 0 THEN total ELSE e

\* pages = end - start + 1
PageCount(s, e) == e - s + 1

TotalCostFlat(pages) == PAGE_COST

\* total_cost = PAGE_COST * pages
TotalCost(pages) == PAGE_COST * pages

\* if start < 1 or end > total or start > end: raise "Invalid page range"
InvalidRange(s, e, total) == s < 1 \/ e > total \/ s > e

\* rate_limit, then the handler is entered; the Redis counter is not part of this
\* state, so either outcome of rate_limit is possible.
StartJobCall(p, u, j, s, e) ==
    /\ Free(p)
    /\ calls < MaxCalls
    /\ calls' = calls + 1
    /\ \E allowed \in BOOLEAN :
         LET r == [IdleReq EXCEPT !.op = "start_job", !.user = u, !.job = j,
                                  !.start = s, !.end_arg = e,
                                  !.bal0 = credits[u],
                                  !.status0 = jobs[j].status,
                                  !.gen0 = jobs[j].updated_at]
         IN req' = [req EXCEPT ![p] =
                      IF allowed THEN [r EXCEPT !.pc = "find_and_update"]
                      ELSE Finish([IdleReq EXCEPT !.op = "start_job", !.user = u,
                                                  !.job = j], "TooManyRequests")]
    /\ UNCHANGED <<credits, jobs, queue, payments, redis, blobs>>

\* jobs_collection.find_one_and_update(...): returns the document as it was
StartJobFindAndUpdate(p) ==
    LET r == req[p]
        job == jobs[r.job]
    IN /\ r.op = "start_job" /\ r.pc = "find_and_update"
       /\ IF StartFilter(job, r.user)
          THEN /\ jobs' = [jobs EXCEPT ![r.job].status = "processing"]
               /\ req' = [req EXCEPT ![p] =
                            [r EXCEPT !.pc = "deduct", !.num_pages = job.num_pages]]
          ELSE /\ req' = [req EXCEPT ![p] = Finish(r, "AlreadyStarted")]
               /\ UNCHANGED jobs
       /\ UNCHANGED <<credits, queue, calls, payments, redis, blobs>>

\* the debit placed inside the try: a refused debit reaches the except clause
StartJobDeductInTry(p) ==
    LET r == req[p]
        total == r.num_pages
        e == EffectiveEnd(r.end_arg, total)
        pages == PageCount(r.start, e)
        total_cost == TotalCost(pages)
        r1 == [r EXCEPT !.end = e, !.total_cost = total_cost]
    IN /\ r.op = "start_job" /\ r.pc = "deduct"
       /\ IF InvalidRange(r.start, e, total)
          THEN /\ req' = [req EXCEPT ![p] = Finish(r1, "InvalidRange")]
               /\ UNCHANGED credits
          ELSE IF pages > MAX_PAGES_PER_JOB
          THEN /\ req' = [req EXCEPT ![p] = Finish(r1, "PageLimitExceeded")]
               /\ UNCHANGED credits
          ELSE IF CanDeduct(credits[r.user], total_cost)
          THEN /\ credits' = [credits EXCEPT ![r.user] = Deduct(@, total_cost)]
               /\ req' = [req EXCEPT ![p] =
                            [r1 EXCEPT !.pc = "send", !.page = r.start,
                                       !.debited = total_cost]]
          ELSE /\ req' = [req EXCEPT ![p] = [r1 EXCEPT !.pc = "refund"]]
               /\ UNCHANGED credits
       /\ UNCHANGED <<jobs, queue, calls, payments, redis, blobs>>

\* range validation, batch ceiling, deduct_credits_atomic
StartJobDeduct(p) ==
    LET r == req[p]
        total == r.num_pages
        e == EffectiveEnd(r.end_arg, total)
        pages == PageCount(r.start, e)
        total_cost == TotalCost(pages)
        r1 == [r EXCEPT !.end = e, !.total_cost = total_cost]
    IN /\ r.op = "start_job" /\ r.pc = "deduct"
       /\ IF InvalidRange(r.start, e, total)
          THEN /\ req' = [req EXCEPT ![p] = Finish(r1, "InvalidRange")]
               /\ UNCHANGED credits
          ELSE IF pages > MAX_PAGES_PER_JOB
          THEN /\ req' = [req EXCEPT ![p] = Finish(r1, "PageLimitExceeded")]
               /\ UNCHANGED credits
          ELSE IF CanDeduct(credits[r.user], total_cost)
          THEN /\ credits' = [credits EXCEPT ![r.user] = Deduct(@, total_cost)]
               /\ req' = [req EXCEPT ![p] =
                            [r1 EXCEPT !.pc = "send", !.page = r.start,
                                       !.debited = total_cost]]
          ELSE /\ req' = [req EXCEPT ![p] = Finish(r1, "InsufficientCredits")]
               /\ UNCHANGED credits
       /\ UNCHANGED <<jobs, queue, calls, payments, redis, blobs>>

\* one iteration of the loop: celery.send_task returns a handle, or raises
StartJobSendTask(p) ==
    LET r == req[p]
    IN /\ r.op = "start_job" /\ r.pc = "send" /\ r.page <= r.end
       /\ \/ /\ Len(queue) < MaxTasks
             /\ queue' = Append(queue, [job |-> r.job, page |-> r.page])
             /\ req' = [req EXCEPT ![p] =
                          [r EXCEPT !.task_ids = Append(@, Len(queue) + 1),
                                    !.page = @ + 1]]
          \/ /\ req' = [req EXCEPT ![p] = [r EXCEPT !.pc = "refund"]]
             /\ UNCHANGED queue
       /\ UNCHANGED <<credits, jobs, calls, payments, redis, blobs>>

\* the closing update_one and the response
StartJobRecord(p) ==
    LET r == req[p]
        job == jobs[r.job]
    IN /\ r.op = "start_job" /\ r.pc = "send" /\ r.page > r.end
       /\ jobs' = IF RecordFilter(job)
                  THEN [jobs EXCEPT ![r.job].status = "processing",
                                    ![r.job].task_ids = r.task_ids]
                  ELSE jobs
       /\ req' = [req EXCEPT ![p] = Finish(r, "Success")]
       /\ UNCHANGED <<credits, queue, calls, payments, redis, blobs>>

\* except Exception: add_credits(user, total_cost); raise
StartJobRefund(p) ==
    LET r == req[p]
    IN /\ r.op = "start_job" /\ r.pc = "refund"
       /\ credits' = [credits EXCEPT ![r.user] = AddCredits(@, r.total_cost)]
       /\ req' = [req EXCEPT ![p] =
                    Finish([r EXCEPT !.refunded = r.total_cost], "DispatchFailure")]
       /\ UNCHANGED <<jobs, queue, calls, payments, redis, blobs>>

----------------------------------------------------------------------------
(* reupload_pdf, jobs/router.py *)

\* if pages > MAX_PAGES: raise "Page limit exceeded"
TooManyPages(pages) == pages > MAX_PAGES

\* filter of find_one: job_id and user_id
OwnedBy(job, u) == job.exists /\ job.user_id = u

\* the status reupload_pdf writes
ReuploadStatus == "uploaded"

ReuploadCall(p, u, j, valid, pages) ==
    /\ Free(p)
    /\ calls < MaxCalls
    /\ calls' = calls + 1
    /\ \E allowed \in BOOLEAN :
         LET r0 == [IdleReq EXCEPT !.op = "reupload_pdf", !.user = u, !.job = j]
             r == [r0 EXCEPT !.num_pages = pages]
         IN req' = [req EXCEPT ![p] =
                      IF ~allowed THEN Finish(r0, "TooManyRequests")
                      ELSE IF ~valid THEN Finish(r0, "InvalidFile")
                      ELSE [r EXCEPT !.pc = "find"]]
    /\ UNCHANGED <<credits, jobs, queue, payments, redis, blobs>>

\* find_one (ownership), then the page count of the new file
ReuploadFind(p) ==
    LET r == req[p]
    IN /\ r.op = "reupload_pdf" /\ r.pc = "find"
       /\ req' = [req EXCEPT ![p] =
                    IF ~OwnedBy(jobs[r.job], r.user) THEN Finish(r, "NotFound")
                    ELSE IF TooManyPages(r.num_pages) THEN Finish(r, "PageLimitExceeded")
                    ELSE [r EXCEPT !.pc = "deduct"]]
       /\ UNCHANGED <<credits, jobs, queue, calls, payments, redis, blobs>>

ReuploadDeduct(p) ==
    LET r == req[p]
    IN /\ r.op = "reupload_pdf" /\ r.pc = "deduct"
       /\ IF CanDeduct(credits[r.user], UPLOAD_COST)
          THEN /\ credits' = [credits EXCEPT ![r.user] = Deduct(@, UPLOAD_COST)]
               /\ req' = [req EXCEPT ![p] =
                            [r EXCEPT !.pc = "store", !.total_cost = UPLOAD_COST,
                                      !.debited = UPLOAD_COST]]
          ELSE /\ req' = [req EXCEPT ![p] = Finish(r, "InsufficientCredits")]
               /\ UNCHANGED credits
       /\ UNCHANGED <<jobs, queue, calls, payments, redis, blobs>>

\* upload_bytes and update_one({"job_id": job_id}, ...), or one of them raises
ReuploadStore(p) ==
    LET r == req[p]
    IN /\ r.op = "reupload_pdf" /\ r.pc = "store"
       /\ \/ /\ jobs' = [jobs EXCEPT ![r.job].num_pages = r.num_pages,
                                     ![r.job].updated_at = @ + 1,
                                     ![r.job].status = ReuploadStatus]
             /\ req' = [req EXCEPT ![p] = Finish(r, "Success")]
          \/ /\ req' = [req EXCEPT ![p] = [r EXCEPT !.pc = "refund"]]
             /\ UNCHANGED jobs
       /\ UNCHANGED <<credits, queue, calls, payments, redis, blobs>>

ReuploadRefund(p) ==
    LET r == req[p]
    IN /\ r.op = "reupload_pdf" /\ r.pc = "refund"
       /\ credits' = [credits EXCEPT ![r.user] = AddCredits(@, UPLOAD_COST)]
       /\ req' = [req EXCEPT ![p] =
                    Finish([r EXCEPT !.refunded = UPLOAD_COST], "StoreFailure")]
       /\ UNCHANGED <<jobs, queue, calls, payments, redis, blobs>>

----------------------------------------------------------------------------
(* upload_pdf, jobs/router.py *)

\* str(uuid.uuid4()) of the n-th request: an id no job has
NewJobIds == <<"new1", "new2", "new3">>

UploadJobIds == JobIds \cup {NewJobIds[n] : n \in 1..MaxCalls}

UploadOps == {"upload_pdf", "reupload_pdf"}

\* rate_limit, the checks of the file (name, content type, "%PDF", size), the job
\* id, the page count and the page limit
UploadCall(p, u, valid, pages) ==
    /\ Free(p)
    /\ calls < MaxCalls
    /\ calls' = calls + 1
    /\ \E allowed \in BOOLEAN :
         LET r0 == [IdleReq EXCEPT !.op = "upload_pdf", !.user = u,
                                   !.job = NewJobIds[calls + 1]]
             r == [r0 EXCEPT !.num_pages = pages, !.bal0 = credits[u]]
         IN req' = [req EXCEPT ![p] =
                      IF ~allowed THEN Finish(r0, "TooManyRequests")
                      ELSE IF ~valid THEN Finish(r0, "InvalidFile")
                      ELSE IF TooManyPages(pages) THEN Finish(r, "PageLimitExceeded")
                      ELSE [r EXCEPT !.pc = "deduct"]]
    /\ UNCHANGED <<credits, jobs, queue, payments, redis, blobs>>

\* deduct_credits_atomic(user["_id"], UPLOAD_COST)
UploadDeduct(p) ==
    LET r == req[p]
    IN /\ r.op = "upload_pdf" /\ r.pc = "deduct"
       /\ IF CanDeduct(credits[r.user], UPLOAD_COST)
          THEN /\ credits' = [credits EXCEPT ![r.user] = Deduct(@, UPLOAD_COST)]
               /\ req' = [req EXCEPT ![p] =
                            [r EXCEPT !.pc = "store", !.total_cost = UPLOAD_COST,
                                      !.debited = UPLOAD_COST]]
          ELSE /\ req' = [req EXCEPT ![p] = Finish(r, "InsufficientCredits")]
               /\ UNCHANGED credits
       /\ UNCHANGED <<jobs, queue, calls, payments, redis, blobs>>

\* upload_bytes and insert_one({..., "status": "uploaded"}), or one of them raises
UploadStore(p) ==
    LET r == req[p]
    IN /\ r.op = "upload_pdf" /\ r.pc = "store"
       /\ \/ /\ jobs' = [jobs EXCEPT ![r.job] =
                            [NoJob EXCEPT !.exists = TRUE, !.user_id = r.user,
                                          !.num_pages = r.num_pages,
                                          !.status = "uploaded"]]
             /\ req' = [req EXCEPT ![p] = Finish(r, "Success")]
          \/ /\ req' = [req EXCEPT ![p] = [r EXCEPT !.pc = "refund"]]
             /\ UNCHANGED jobs
       /\ UNCHANGED <<credits, queue, calls, payments, redis, blobs>>

\* except Exception: add_credits(user["_id"], UPLOAD_COST); raise
UploadRefund(p) ==
    LET r == req[p]
    IN /\ r.op = "upload_pdf" /\ r.pc = "refund"
       /\ credits' = [credits EXCEPT ![r.user] = AddCredits(@, UPLOAD_COST)]
       /\ req' = [req EXCEPT ![p] =
                    Finish([r EXCEPT !.refunded = UPLOAD_COST], "StoreFailure")]
       /\ UNCHANGED <<jobs, queue, calls, payments, redis, blobs>>

\* The store before any of the uploads of a behaviour: the job of user u1 and the
\* admin library job.
InitUpload ==
    /\ \E c \in InitCredits : credits = [u \in Users |-> c]
    /\ jobs = [j \in UploadJobIds |->
                 IF j = AdminJob THEN AdminLibraryJob
                 ELSE IF j = UserJob THEN UploadedJob ELSE NoJob]
    /\ queue = <<>>
    /\ req = [p \in Procs |-> IdleReq]
    /\ calls = 0
    /\ payments = <<>>
    /\ redis = <<>>
    /\ blobs = <<>>

NextUpload ==
    \/ \E p \in Procs, u \in Users, valid \in BOOLEAN, n \in PageCounts :
         UploadCall(p, u, valid, n)
    \/ \E p \in Procs : UploadDeduct(p)
    \/ \E p \in Procs : UploadStore(p)
    \/ \E p \in Procs : UploadRefund(p)
    \/ \E p \in Procs, u \in Users, valid \in BOOLEAN, n \in PageCounts :
         ReuploadCall(p, u, UserJob, valid, n)
    \/ \E p \in Procs : ReuploadFind(p)
    \/ \E p \in Procs : ReuploadDeduct(p)
    \/ \E p \in Procs : ReuploadStore(p)
    \/ \E p \in Procs : ReuploadRefund(p)

SpecUpload == InitUpload /\ [][NextUpload]_vars

----------------------------------------------------------------------------
(* stream_public_audio and download_public_audio, admin/public_router.py *)

PublicOps == {"stream_public_audio", "download_public_audio"}

\* if user_credits < required: raise 403
PublicShort(user_credits, required) == user_credits < required

\* get_current_user, find_one({"job_id", "is_admin": True}), the page map
PublicCall(p, op, u, j) ==
    /\ Free(p)
    /\ calls < MaxCalls
    /\ calls' = calls + 1
    /\ LET r == [IdleReq EXCEPT !.op = op, !.user = u, !.job = j]
           job == jobs[j]
       IN req' = [req EXCEPT ![p] =
                    IF ~(job.exists /\ job.is_admin) THEN Finish(r, "NotFound")
                    ELSE IF ~job.has_pages THEN Finish(r, "NoAudioPages")
                    ELSE [r EXCEPT !.pc = "read_user",
                                   !.total_cost = job.required_credits]]
    /\ UNCHANGED <<credits, jobs, queue, payments, redis, blobs>>

\* user_doc = users_collection.find_one(...); the comparison with required
PublicReadUser(p) ==
    LET r == req[p]
    IN /\ r.op \in PublicOps /\ r.pc = "read_user"
       /\ req' = [req EXCEPT ![p] =
                    IF PublicShort(credits[r.user], r.total_cost)
                    THEN Finish(r, "InsufficientCredits")
                    ELSE [r EXCEPT !.pc = "deduct"]]
       /\ UNCHANGED <<credits, jobs, queue, calls, payments, redis, blobs>>

\* users_collection.update_one({"_id"}, {"$inc": {"credits": -required}})
PublicDeduct(p) ==
    LET r == req[p]
    IN /\ r.op \in PublicOps /\ r.pc = "deduct"
       /\ credits' = [credits EXCEPT ![r.user] = Deduct(@, r.total_cost)]
       /\ req' = [req EXCEPT ![p] =
                    Finish([r EXCEPT !.debited = r.total_cost], "Success")]
       /\ UNCHANGED <<jobs, queue, calls, payments, redis, blobs>>

----------------------------------------------------------------------------
(* get_status, jobs/router.py and main.py *)

InSeq(x, seq) == \E i \in 1..Len(seq) : seq[i] = x

\* jobs_collection.find_one({"task_ids": task_id, "user_id": user}) finds a job
Authorized(u, t) ==
    \E j \in JobIds :
        jobs[j].exists /\ jobs[j].user_id = u /\ InSeq(t, jobs[j].task_ids)

\* jobs/router.py: 403 unless the find_one finds a job, then celery.AsyncResult
GetStatus(p, u, t) ==
    /\ Free(p)
    /\ calls < MaxCalls
    /\ calls' = calls + 1
    /\ LET r == [IdleReq EXCEPT !.op = "get_status", !.user = u, !.task = t,
                                !.authorized = Authorized(u, t)]
       IN req' = [req EXCEPT ![p] =
                    IF Authorized(u, t) THEN Finish(r, "TaskState")
                    ELSE Finish(r, "NotAuthorized")]
    /\ UNCHANGED <<credits, jobs, queue, payments, redis, blobs>>

\* main.py: celery.AsyncResult(task_id) for whatever id the caller sends
MainGetStatus(p, u, t) ==
    /\ Free(p)
    /\ calls < MaxCalls
    /\ calls' = calls + 1
    /\ LET r == [IdleReq EXCEPT !.op = "main_get_status", !.user = u, !.task = t,
                                !.authorized = Authorized(u, t)]
       IN req' = [req EXCEPT ![p] = Finish(r, "TaskState")]
    /\ UNCHANGED <<credits, jobs, queue, payments, redis, blobs>>

----------------------------------------------------------------------------
Init ==
    /\ \E c \in InitCredits : credits = [u \in Users |-> c]
    /\ jobs = [j \in JobIds |-> IF j = AdminJob THEN AdminLibraryJob ELSE UploadedJob]
    /\ queue = <<>>
    /\ req = [p \in Procs |-> IdleReq]
    /\ calls = 0
    /\ payments = <<>>
    /\ redis = <<>>
    /\ blobs = <<>>

Next ==
    \/ \E p \in Procs, u \in Users, rg \in Ranges :
         StartJobCall(p, u, UserJob, rg[1], rg[2])
    \/ \E p \in Procs : StartJobFindAndUpdate(p)
    \/ \E p \in Procs : StartJobDeduct(p)
    \/ \E p \in Procs : StartJobSendTask(p)
    \/ \E p \in Procs : StartJobRecord(p)
    \/ \E p \in Procs : StartJobRefund(p)
    \/ \E p \in Procs, u \in Users, valid \in BOOLEAN, n \in PageCounts :
         ReuploadCall(p, u, UserJob, valid, n)
    \/ \E p \in Procs : ReuploadFind(p)
    \/ \E p \in Procs : ReuploadDeduct(p)
    \/ \E p \in Procs : ReuploadStore(p)
    \/ \E p \in Procs : ReuploadRefund(p)
    \/ \E p \in Procs, op \in PublicOps, u \in Users, j \in JobIds :
         PublicCall(p, op, u, j)
    \/ \E p \in Procs : PublicReadUser(p)
    \/ \E p \in Procs : PublicDeduct(p)
    \/ \E p \in Procs, u \in Users, t \in LookupIds : GetStatus(p, u, t)
    \/ \E p \in Procs, u \in Users, t \in LookupIds : MainGetStatus(p, u, t)

Spec == Init /\ [][Next]_vars

----------------------------------------------------------------------------
(* Properties *)

Done(p, op) == req[p].op = op /\ req[p].pc = "done"

Net(p) == req[p].debited - req[p].refunded

\* the range of a start_job call is within the job and within the batch ceiling
GoodRange(p) ==
    LET r == req[p]
        total == jobs[r.job].num_pages
        e == IF r.end_arg = 0 THEN total ELSE r.end_arg
    IN 1 <= r.start /\ r.start <= e /\ e <= total
       /\ e - r.start + 1 <= MAX_PAGES_PER_JOB

RequestedCost(p) ==
    LET r == req[p]
        total == jobs[r.job].num_pages
        e == IF r.end_arg = 0 THEN total ELSE r.end_arg
    IN (e - r.start + 1) * PAGE_COST

\* p and q have served two start_job calls of the owner on the same job, both received
\* while the job was "uploaded" and not re-uploaded since, with valid ranges and a
\* balance that covers both
ConcurrentStarts(p, q) ==
    /\ p # q
    /\ Done(p, "start_job") /\ Done(q, "start_job")
    /\ req[p].job = req[q].job
    /\ req[p].user = jobs[req[p].job].user_id
    /\ req[q].user = jobs[req[q].job].user_id
    /\ req[p].status0 = "uploaded" /\ req[q].status0 = "uploaded"
    /\ req[p].gen0 = jobs[req[p].job].updated_at
    /\ req[q].gen0 = jobs[req[q].job].updated_at
    /\ GoodRange(p) /\ GoodRange(q)
    /\ req[p].bal0 >= RequestedCost(p) + RequestedCost(q)
    /\ req[q].bal0 >= RequestedCost(p) + RequestedCost(q)

\* C1: of two concurrent start_job calls of the owner on one "uploaded" job (valid
\* ranges, credits for both), exactly one is rejected as already started, having
\* debited and submitted nothing; the other is the only one that can succeed, and
\* unless a task submission raised it does succeed, submits its tasks, and the two
\* calls together have taken exactly its batch cost from the owner's balance.
C1_OneStartWins ==
    \A p, q \in Procs :
        ConcurrentStarts(p, q) /\ req[q].result # "AlreadyStarted" =>
            /\ req[p].result = "AlreadyStarted"
            /\ req[p].debited = 0 /\ req[p].task_ids = <<>>
            /\ req[q].result \in {"Success", "DispatchFailure"}
            /\ req[q].result = "Success" =>
                 /\ req[q].task_ids # <<>>
                 /\ Net(p) + Net(q) = RequestedCost(q)
                 /\ \E b \in {req[p].bal0, req[q].bal0} :
                        credits[req[q].user] = b - RequestedCost(q)
            /\ req[q].result = "DispatchFailure" => Net(p) + Net(q) = 0

C1_Witness ==
    \E p, q \in Procs :
        /\ ConcurrentStarts(p, q)
        /\ req[p].result = "AlreadyStarted"
        /\ req[q].result = "Success"

\* C2: a start_job call that fails for lack of credits has submitted no task, has
\* debited nothing and leaves the job's status equal to "uploaded".
C2_InsufficientLeavesUploaded ==
    \A p \in Procs :
        Done(p, "start_job") /\ req[p].result = "InsufficientCredits" =>
            /\ req[p].task_ids = <<>>
            /\ req[p].debited = 0
            /\ jobs[req[p].job].status = "uploaded"

\* C3: a start_job call whose task submission raised has refunded the whole cost it
\* debited and leaves the job in status "uploaded", from which start_job is accepted.
C3_DispatchFailureRetryable ==
    \A p \in Procs :
        Done(p, "start_job") /\ req[p].result = "DispatchFailure" =>
            /\ req[p].refunded = req[p].debited
            /\ req[p].debited = PageCount(req[p].start, req[p].end) * PAGE_COST
            /\ jobs[req[p].job].status = "uploaded"

StartFailures ==
    {"InvalidRange", "PageLimitExceeded", "InsufficientCredits", "DispatchFailure"}

\* C4: no start_job call that failed without submitting a task leaves its job in
\* status "processing".
C4_NoStuckProcessing ==
    \A p \in Procs :
        /\ Done(p, "start_job")
        /\ req[p].result \in StartFailures
        /\ req[p].task_ids = <<>>
        => jobs[req[p].job].status # "processing"

\* C5: no user's credit balance is negative.
C5_BalanceNonNegative ==
    \A u \in Users : credits[u] >= 0

\* C6: a successful start_job call with a range start..end inside the job and within
\* the batch ceiling has submitted exactly one task per page of start..end, in handles
\* that are pairwise distinct, returns end - start + 1 handles and has debited
\* (end - start + 1) * PAGE_COST, nothing of which was refunded.
C6_OneTaskPerPage ==
    \A p \in Procs :
        LET r == req[p]
            n == r.end_arg - r.start + 1
        IN Done(p, "start_job") /\ r.result = "Success" /\ r.end_arg # 0 =>
              /\ 1 <= r.start /\ r.start <= r.end_arg /\ r.end_arg <= r.num_pages
              /\ n <= MAX_PAGES_PER_JOB
              /\ Len(r.task_ids) = n
              /\ \A i \in 1..n :
                    /\ r.task_ids[i] \in 1..Len(queue)
                    /\ queue[r.task_ids[i]] = [job |-> r.job, page |-> r.start + i - 1]
              /\ \A i, k \in 1..n : i # k => r.task_ids[i] # r.task_ids[k]
              /\ r.debited = n * PAGE_COST
              /\ r.refunded = 0

C6_Witness ==
    \E p \in Procs :
        /\ Done(p, "start_job") /\ req[p].result = "Success"
        /\ req[p].start = 2 /\ req[p].end_arg = 3
        /\ Len(req[p].task_ids) = 2

\* C7: after a successful start_job call the job document's task_ids are the handles
\* the call returns.
C7_DispatchRecorded ==
    \A p \in Procs :
        Done(p, "start_job") /\ req[p].result = "Success" =>
            jobs[req[p].job].task_ids = req[p].task_ids

StatusLookups == {"get_status", "main_get_status"}

\* C8: a status lookup returns a task's state only if, when it was made, the task id
\* was in the task_ids of a job owned by the caller.
C8_LookupAuthorized ==
    \A p \in Procs :
        /\ req[p].op \in StatusLookups /\ req[p].pc = "done"
        /\ req[p].result = "TaskState"
        => req[p].authorized

\* C9: a start_job call rejected for its range (out of the job, or above the batch
\* ceiling) has submitted no task, has debited nothing and leaves the job's status
\* equal to "uploaded".
C9_BadRangeNoEffect ==
    \A p \in Procs :
        Done(p, "start_job") /\ req[p].result \in {"InvalidRange", "PageLimitExceeded"} =>
            /\ req[p].task_ids = <<>>
            /\ req[p].debited = 0
            /\ jobs[req[p].job].status = "uploaded"

\* C10: no step takes a job from status "processing" back to "uploaded".
C10_NoBackToUploaded ==
    [][\A j \in JobIds :
          jobs[j].status = "processing" => jobs'[j].status # "uploaded"]_vars

----------------------------------------------------------------------------
(* The review workflow: request_full_review (jobs/router.py) and               *)
(* approve_review, decline_review, done_processing (admin/router.py).          *)
(*                                                                             *)
(* A user document's "_id" is the ObjectId the store assigns at insert_one     *)
(* (auth/router.py inserts no "_id"); a job document's "user_id" is            *)
(* str(user["_id"]).  Users are the ObjectIds, StrId[u] is the string.         *)

MaxReviewCalls == 3     \* requests the server receives in one behaviour of SpecReview

ReviewCredits == {2, 12}

\* str(user["_id"])
StrId == [u \in Users |-> IF u = "u1" THEN "str(u1)" ELSE "str(u2)"]

\* The 3-page job of user u1 as upload_pdf inserts it, before and after a first
\* request_full_review.
ReviewJob(requested) ==
    [exists |-> TRUE, user_id |-> StrId["u1"], num_pages |-> 3,
     review_required |-> requested,
     review_status |-> IF requested THEN "pending" ELSE "none"]

ReviewOps == {"request_full_review", "approve_review", "decline_review",
              "done_processing"}

AdminOps == {"approve_review", "decline_review", "done_processing"}

ReviewIdle ==
    [op |-> "idle", pc |-> "idle", user |-> "none", job |-> "none",
     target |-> "none", owner_id |-> "none", num_pages |-> 0,
     payer |-> "none", balance |-> 0, result |-> "none",
     \* history of the call, read by the properties only
     status0 |-> "none", num |-> 0, alone |-> FALSE, wrote |-> FALSE,
     debited |-> 0, notified |-> FALSE, notify_failed |-> FALSE,
     \* start_admin_request_job: the page of the loop, end, what the gate read, the
     \* page tasks sent
     page |-> 0, end |-> 0, required0 |-> FALSE, sent |-> 0]

\* a request record as a handler is entered: the job's review_status then, the
\* number of the call, whether every other slot had responded
Arrive(p, op, u, j) ==
    [ReviewIdle EXCEPT !.op = op, !.user = u, !.job = j,
                       !.status0 = jobs[j].review_status,
                       !.required0 = jobs[j].review_required,
                       !.num = calls + 1,
                       !.alone = \A q \in Procs \ {p} : Free(q)]

\* filter {"job_id", "user_id": str(user["_id"])} of request_full_review
OwnReviewJob(job, u) == job.exists /\ job.user_id = StrId[u]

ReviewNeverRequested(job) == FALSE

\* if job.get("review_required"): raise "Review already requested"
ReviewRequested(job) == job.review_required

\* filter {"job_id", "review_required": True} of done_processing
ReviewJobFilter(job) == job.exists /\ job.review_required

\* filter {"job_id", "review_required": True, "review_status": "pending"}
PendingFilter(job) ==
    job.exists /\ job.review_required /\ job.review_status = "pending"

UserIdIsStr(u, id) == StrId[u] = id

\* filter {"_id": job["user_id"]} of users_collection.find_one
UserIdIs(u, id) == u = id

\* require_credits: if user["credits"] < amount: raise 403
Short(balance, amount) == balance < amount

\* deduct_credits, which credits/service.py does not define: the debit of the
\* ledger as the specification states it, refused when the balance does not cover
\* the amount at that step
DebitRefused(balance, amount) == balance < amount

DeductCredits(balance, amount) ==
    IF DebitRefused(balance, amount) THEN balance ELSE balance - amount

\* request_full_review: find_one and the two checks
RequestFullReview(p, u, j) ==
    /\ Free(p)
    /\ calls < MaxReviewCalls
    /\ calls' = calls + 1
    /\ LET r == Arrive(p, "request_full_review", u, j)
           job == jobs[j]
       IN req' = [req EXCEPT ![p] =
                    IF ~OwnReviewJob(job, u) THEN Finish(r, "NotFound")
                    ELSE IF ReviewRequested(job) THEN Finish(r, "AlreadyRequested")
                    ELSE [r EXCEPT !.pc = "update", !.target = "pending"]]
    /\ UNCHANGED <<credits, jobs, queue, payments, redis, blobs>>

\* approve_review: the role check and find_one with the pending filter
ApproveReview(p, admin, j) ==
    /\ Free(p)
    /\ calls < MaxReviewCalls
    /\ calls' = calls + 1
    /\ LET r == Arrive(p, "approve_review", "admin", j)
           job == jobs[j]
       IN req' = [req EXCEPT ![p] =
                    IF ~admin THEN Finish(r, "AdminRequired")
                    ELSE IF ~PendingFilter(job) THEN Finish(r, "NotPending")
                    ELSE [r EXCEPT !.pc = "find_user", !.target = "approved",
                                   !.owner_id = job.user_id,
                                   !.num_pages = job.num_pages]]
    /\ UNCHANGED <<credits, jobs, queue, payments, redis, blobs>>

\* approve_review, lines 314-323, one store call a step: users_collection.find_one
\* with require_credits on the document it returns, then deduct_credits
ApproveCharge(p) ==
    LET r == req[p]
        found == {u \in Users : UserIdIs(u, r.owner_id)}
        total_cost == PAGE_COST * r.num_pages
    IN /\ r.op = "approve_review" /\ r.pc \in {"find_user", "deduct"}
       /\ IF r.pc = "find_user"
          THEN /\ req' = [req EXCEPT ![p] =
                    IF found = {} THEN Finish(r, "UserNotFound")
                    ELSE LET u == CHOOSE v \in found : TRUE
                         IN IF Short(credits[u], total_cost)
                            THEN Finish(r, "InsufficientCredits")
                            ELSE [r EXCEPT !.pc = "deduct", !.payer = u,
                                           !.balance = credits[u]]]
               /\ UNCHANGED credits
          ELSE /\ credits' = [credits EXCEPT ![r.payer] = DeductCredits(@, total_cost)]
               /\ req' = [req EXCEPT ![p] =
                    IF DebitRefused(credits[r.payer], total_cost)
                    THEN Finish(r, "InsufficientCredits")
                    ELSE [r EXCEPT !.pc = "update",
                                   !.debited = credits[r.payer] - credits'[r.payer]]]
       /\ UNCHANGED <<jobs, queue, calls, payments, redis, blobs>>

\* decline_review: the role check and find_one with the pending filter
DeclineReview(p, admin, j) ==
    /\ Free(p)
    /\ calls < MaxReviewCalls
    /\ calls' = calls + 1
    /\ LET r == Arrive(p, "decline_review", "admin", j)
       IN req' = [req EXCEPT ![p] =
                    IF ~admin THEN Finish(r, "AdminRequired")
                    ELSE IF ~PendingFilter(jobs[j]) THEN Finish(r, "NotPending")
                    ELSE [r EXCEPT !.pc = "update", !.target = "declined"]]
    /\ UNCHANGED <<credits, jobs, queue, payments, redis, blobs>>

\* done_processing: the role check, find_one and the check of review_status
DoneProcessing(p, admin, j) ==
    /\ Free(p)
    /\ calls < MaxReviewCalls
    /\ calls' = calls + 1
    /\ LET r == Arrive(p, "done_processing", "admin", j)
           job == jobs[j]
       IN req' = [req EXCEPT ![p] =
                    IF ~admin THEN Finish(r, "AdminRequired")
                    ELSE IF ~ReviewJobFilter(job) THEN Finish(r, "NotFound")
                    ELSE IF job.review_status # "approved" THEN Finish(r, "NotApproved")
                    ELSE [r EXCEPT !.pc = "update", !.target = "done"]]
    /\ UNCHANGED <<credits, jobs, queue, payments, redis, blobs>>

\* the update of request_full_review taking the cost of the pages with it
ReviewSetStatusCharging(p) ==
    LET r == req[p]
    IN /\ r.op \in ReviewOps /\ r.pc = "update"
       /\ jobs' = [jobs EXCEPT ![r.job].review_status = r.target,
                               ![r.job].review_required =
                                   IF r.op = "request_full_review" THEN TRUE ELSE @]
       /\ credits' = [credits EXCEPT ![r.user] =
                        IF r.op = "request_full_review"
                        THEN DeductCredits(@, PAGE_COST * jobs[r.job].num_pages)
                        ELSE @]
       /\ req' = [req EXCEPT ![p] = [r EXCEPT !.pc = "notify", !.wrote = TRUE]]
       /\ UNCHANGED <<queue, calls, payments, redis, blobs>>

\* jobs_collection.update_one({"job_id": job_id}, {"$set": {...}}) of the four
\* handlers: the filter is the job id alone
ReviewSetStatus(p) ==
    LET r == req[p]
    IN /\ r.op \in ReviewOps /\ r.pc = "update"
       /\ jobs' = [jobs EXCEPT ![r.job].review_status = r.target,
                               ![r.job].review_required =
                                   IF r.op = "request_full_review" THEN TRUE ELSE @]
       /\ req' = [req EXCEPT ![p] = [r EXCEPT !.pc = "notify", !.wrote = TRUE]]
       /\ UNCHANGED <<credits, queue, calls, payments, redis, blobs>>

\* celery.send_task("tasks.send_review_request_email" or
\* "tasks.send_job_state_email"), outside any try: it returns, or it raises and the
\* request ends with the exception
ReviewNotify(p) ==
    LET r == req[p]
    IN /\ r.op \in ReviewOps /\ r.pc = "notify"
       /\ \/ /\ queue' = Append(queue, [job |-> r.job, state |-> r.target])
             /\ req' = [req EXCEPT ![p] =
                          Finish([r EXCEPT !.notified = TRUE], "Success")]
          \/ /\ req' = [req EXCEPT ![p] =
                          Finish([r EXCEPT !.notify_failed = TRUE], "NotifyFailure")]
             /\ UNCHANGED queue
       /\ UNCHANGED <<credits, jobs, calls, payments, redis, blobs>>

MAX_PAGES_AT_ONCE == 50

\* start and end of the process-job form; end 0 is the default None
AdminRanges == {<<2, 0>>, <<3, 2>>}

ApprovalNeverRequired(job) == FALSE

\* if job.get("review_required") and job.get("review_status") != "approved"
ApprovalRequired(job) == job.review_required /\ job.review_status # "approved"

\* start_admin_request_job up to its loop: the role check, find_one, the review
\* gate, the range and the batch limit
StartAdminRequestJob(p, admin, j, s, e) ==
    /\ Free(p)
    /\ calls < MaxReviewCalls
    /\ calls' = calls + 1
    /\ LET r == Arrive(p, "process_job", "admin", j)
           job == jobs[j]
           end == EffectiveEnd(e, job.num_pages)
       IN req' = [req EXCEPT ![p] =
                    IF ~admin THEN Finish(r, "AdminRequired")
                    ELSE IF ~job.exists THEN Finish(r, "NotFound")
                    ELSE IF ApprovalRequired(job) THEN Finish(r, "ApprovalRequired")
                    ELSE IF InvalidRange(s, end, job.num_pages)
                    THEN Finish(r, "InvalidRange")
                    ELSE IF PageCount(s, end) > MAX_PAGES_AT_ONCE
                    THEN Finish(r, "TooManyPages")
                    ELSE [r EXCEPT !.pc = "send", !.page = s, !.end = end]]
    /\ UNCHANGED <<credits, jobs, queue, payments, redis, blobs>>

\* one celery.send_task of start_admin_request_job, none of them in a try:
\* "tasks.process_page" for the page of the loop, then "tasks.send_job_state_email"
AdminSendTask(p) ==
    LET r == req[p]
    IN /\ r.op = "process_job" /\ r.pc = "send"
       /\ \/ /\ r.page <= r.end
             /\ queue' = Append(queue, [job |-> r.job, state |-> "process_page",
                                        page |-> r.page])
             /\ req' = [req EXCEPT ![p] =
                          [r EXCEPT !.page = @ + 1, !.sent = @ + 1]]
          \/ /\ r.page > r.end
             /\ queue' = Append(queue, [job |-> r.job, state |-> "processing"])
             /\ req' = [req EXCEPT ![p] =
                          Finish([r EXCEPT !.notified = TRUE], "Success")]
          \/ /\ req' = [req EXCEPT ![p] = Finish(r, "DispatchFailure")]
             /\ UNCHANGED queue
       /\ UNCHANGED <<credits, jobs, calls, payments, redis, blobs>>

InitReview ==
    /\ \E c \in ReviewCredits : credits = [u \in Users |-> c]
    /\ \E requested \in BOOLEAN : jobs = [j \in {UserJob} |-> ReviewJob(requested)]
    /\ queue = <<>>
    /\ req = [p \in Procs |-> ReviewIdle]
    /\ calls = 0
    /\ payments = <<>>
    /\ redis = <<>>
    /\ blobs = <<>>

NextReview ==
    \/ \E p \in Procs, u \in Users : RequestFullReview(p, u, UserJob)
    \/ \E p \in Procs, admin \in BOOLEAN : ApproveReview(p, admin, UserJob)
    \/ \E p \in Procs : ApproveCharge(p)
    \/ \E p \in Procs, admin \in BOOLEAN : DeclineReview(p, admin, UserJob)
    \/ \E p \in Procs, admin \in BOOLEAN : DoneProcessing(p, admin, UserJob)
    \/ \E p \in Procs : ReviewSetStatus(p)
    \/ \E p \in Procs : ReviewNotify(p)

SpecReview == InitReview /\ [][NextReview]_vars

\* The review workflow with the admin process-job operation: the requests of the
\* owner and of one admin.
NextProcess ==
    \/ \E p \in Procs : RequestFullReview(p, "u1", UserJob)
    \/ \E p \in Procs : ApproveReview(p, TRUE, UserJob)
    \/ \E p \in Procs : ApproveCharge(p)
    \/ \E p \in Procs : DeclineReview(p, TRUE, UserJob)
    \/ \E p \in Procs : DoneProcessing(p, TRUE, UserJob)
    \/ \E p \in Procs : ReviewSetStatus(p)
    \/ \E p \in Procs : ReviewNotify(p)
    \/ \E p \in Procs, admin \in BOOLEAN, rg \in AdminRanges :
          StartAdminRequestJob(p, admin, UserJob, rg[1], rg[2])
    \/ \E p \in Procs : AdminSendTask(p)

SpecProcess == InitReview /\ [][NextProcess]_vars

----------------------------------------------------------------------------
(* Audio reassembly: stream_wav and download_audio (audio/router.py), and the   *)
(* token endpoints stream_audio and download_audio (main.py).                   *)
(*                                                                             *)
(* A byte is [f, h, k]: byte k of the header (h) or of the sample data of the   *)
(* file at path f; f = "out" is a header written by the handler.  A page key    *)
(* "page_<digits>" is the sequence of its decimal digits.                       *)

DOWNLOAD_COST == 20
StripLen == 44          \* audio_bytes[44:]
WriterHeaderLen == 44   \* the header wave.open(out, "wb") writes

MaxAudioCalls == 1      \* requests the server receives in one behaviour of SpecAudio

AudioCredits == {5, 25}
Token == "tok"
Tokens == {Token, "bad"}

Mono16 == [nchannels |-> 1, sampwidth |-> 2, framerate |-> 16000]
Mono8 == [nchannels |-> 1, sampwidth |-> 1, framerate |-> 16000]

\* The bucket: segment files as the page workers wrote them.  hdr is the number of
\* bytes before the sample data (44, or more: 46 with an 18-byte fmt chunk).
Bucket ==
    [path \in {"w1", "w2", "w3", "w4"} |->
        CASE path = "w1" -> [fmt |-> Mono16, hdr |-> 44, nframes |-> 2]
          [] path = "w2" -> [fmt |-> Mono16, hdr |-> 44, nframes |-> 1]
          [] path = "w3" -> [fmt |-> Mono16, hdr |-> 46, nframes |-> 1]
          [] path = "w4" -> [fmt |-> Mono8, hdr |-> 44, nframes |-> 1]]

Paths == DOMAIN Bucket

FrameSize(fmt) == fmt.nchannels * fmt.sampwidth

HeaderBytes(f, n) == [i \in 1..n |-> [f |-> f, h |-> TRUE, k |-> i]]

\* the sample data of the file at path
DataBytes(path) ==
    [i \in 1..(Bucket[path].nframes * FrameSize(Bucket[path].fmt)) |->
        [f |-> path, h |-> FALSE, k |-> i]]

\* what download_to_bytes returns for path
FileBytes(path) == HeaderBytes(path, Bucket[path].hdr) \o DataBytes(path)

NoParams == [nchannels |-> 0, sampwidth |-> 0, framerate |-> 0, nframes |-> 0]

\* wave.open(io.BytesIO(wav_bytes), "rb").getparams(): the format and the frame
\* count the header declares
GetParams(path) ==
    [nchannels |-> Bucket[path].fmt.nchannels, sampwidth |-> Bucket[path].fmt.sampwidth,
     framerate |-> Bucket[path].fmt.framerate, nframes |-> Bucket[path].nframes]

\* w.readframes(w.getnframes())
ReadFrames(path) == DataBytes(path)

RECURSIVE Flatten(_)
Flatten(chunks) ==
    IF chunks = <<>> THEN <<>>
    ELSE Flatten(SubSeq(chunks, 1, Len(chunks) - 1)) \o chunks[Len(chunks)]

FirstFrames(params, data) == params.nframes

\* the frame count of the header once the writer has patched it to the data written
DeclaredFrames(params, data) == Len(data) \div (params.nchannels * params.sampwidth)

\* wave.open(out, "wb"): setparams(params), writeframes(chunk) for each chunk, close
WaveHeader(params, chunks) ==
    [params EXCEPT !.nframes = DeclaredFrames(params, Flatten(chunks))]

WaveBytes(params, chunks) == HeaderBytes("out", WriterHeaderLen) \o Flatten(chunks)

RECURSIVE KeyInt(_)
\* int(digits)
KeyInt(d) ==
    IF d = <<>> THEN 0 ELSE KeyInt(SubSeq(d, 1, Len(d) - 1)) * 10 + d[Len(d)]

\* the rank of the key as a string: the order of "page_1" < "page_10" < "page_2"
PageSortKeyLex(item) ==
    item.key[1] * 100 + (IF Len(item.key) > 1 THEN item.key[2] + 1 ELSE 0)

\* page_sort_key: int(item[0].split("_")[-1])
PageSortKey(item) == KeyInt(item.key)

\* x placed after every item whose key is not greater (sorted is stable)
InsertByKey(sorted, x) ==
    LET n == Cardinality({i \in 1..Len(sorted) : PageSortKey(sorted[i]) <= PageSortKey(x)})
    IN SubSeq(sorted, 1, n) \o <<x>> \o SubSeq(sorted, n + 1, Len(sorted))

RECURSIVE SortedPages(_)
\* sorted(pages.items(), key=page_sort_key)
SortedPages(items) ==
    IF items = <<>> THEN <<>>
    ELSE InsertByKey(SortedPages(SubSeq(items, 1, Len(items) - 1)), items[Len(items)])

Item(key, url) == [key |-> key, audio_url |-> url]

\* page maps as the page workers left them: the items in stored order
PageMaps ==
    LET k1 == <<1>>
        k2 == <<2>>
        k10 == <<1, 0>>
    IN { <<>>,
         <<Item(k1, "w1")>>,
         <<Item(k1, "w1"), Item(k2, "w2")>>,
         <<Item(k2, "w2"), Item(k1, "w1")>>,
         <<Item(k1, "w1"), Item(k10, "w3"), Item(k2, "w2")>>,
         <<Item(k10, "w3"), Item(k2, "w2"), Item(k1, "w1")>>,
         <<Item(k2, "w2"), Item(k10, "w3"), Item(k1, "w1")>>,
         <<Item(k10, "w1"), Item(k1, "w2")>>,
         <<Item(k1, "w1"), Item(k2, "w4")>> }

\* final_parts as the merge task left them
PartLists ==
    { <<>>, <<"w1">>, <<"w1", "w2">>, <<"w2", "w1", "w2">>, <<"w1", "w3">>,
      <<"w3", "w2">> }

\* has_pages: the job document has a "pages" field (no handler of upload writes one)
AudioJob(has_pages, pages, parts) ==
    [exists |-> TRUE, user_id |-> StrId["u1"], has_pages |-> has_pages,
     pages |-> pages, access_token |-> Token, final_parts |-> parts]

\* job.get("pages", {})
JobPages(job) == IF job.has_pages THEN job.pages ELSE <<>>

WavOps == {"stream_wav", "download_audio"}
TokenOps == {"stream_audio", "main_download_audio"}
AudioOps == WavOps \cup TokenOps

AudioIdle ==
    [op |-> "idle", pc |-> "idle", user |-> "none", job |-> "none",
     ordered |-> <<>>, parts |-> <<>>, idx |-> 0, params |-> NoParams,
     pcm_chunks |-> <<>>, total_frames |-> 0, output |-> <<>>,
     out_header |-> NoParams, emitted |-> <<>>, result |-> "none",
     \* history of the call, read by the properties only
     debited |-> 0, fetched |-> <<>>, bal0 |-> 0]

\* stream_wav: get_current_user, find_one, the page map, sorted
StreamWav(p, u, j) ==
    /\ Free(p)
    /\ calls < MaxAudioCalls
    /\ calls' = calls + 1
    /\ LET r == [AudioIdle EXCEPT !.op = "stream_wav", !.user = u, !.job = j]
           job == jobs[j]
       IN req' = [req EXCEPT ![p] =
                    IF ~OwnReviewJob(job, u) THEN Finish(r, "NotFound")
                    ELSE IF JobPages(job) = <<>> THEN Finish(r, "NoAudioPages")
                    ELSE [r EXCEPT !.pc = "fetch", !.idx = 1,
                                   !.ordered = SortedPages(JobPages(job))]]
    /\ UNCHANGED <<credits, jobs, queue, payments, redis, blobs>>

\* download_audio (audio/router.py): get_current_user, find_one, "pages" not in job,
\* require_credits on the user document get_current_user returned
DownloadAudio(p, u, j) ==
    /\ Free(p)
    /\ calls < MaxAudioCalls
    /\ calls' = calls + 1
    /\ LET r == [AudioIdle EXCEPT !.op = "download_audio", !.user = u, !.job = j,
                                  !.bal0 = credits[u]]
           job == jobs[j]
       IN req' = [req EXCEPT ![p] =
                    IF ~OwnReviewJob(job, u) \/ ~job.has_pages
                    THEN Finish(r, "AudioNotAvailable")
                    ELSE IF Short(credits[u], DOWNLOAD_COST)
                    THEN Finish(r, "InsufficientCredits")
                    ELSE [r EXCEPT !.pc = "deduct"]]
    /\ UNCHANGED <<credits, jobs, queue, payments, redis, blobs>>

\* deduct_credits(user["_id"], DOWNLOAD_COST), then sorted
DownloadDeduct(p) ==
    LET r == req[p]
    IN /\ r.op = "download_audio" /\ r.pc = "deduct"
       /\ credits' = [credits EXCEPT ![r.user] = DeductCredits(@, DOWNLOAD_COST)]
       /\ req' = [req EXCEPT ![p] =
                    IF DebitRefused(credits[r.user], DOWNLOAD_COST)
                    THEN Finish(r, "InsufficientCredits")
                    ELSE [r EXCEPT !.pc = "fetch", !.idx = 1,
                                   !.debited = DOWNLOAD_COST,
                                   !.ordered = SortedPages(jobs[r.job].pages)]]
       /\ UNCHANGED <<jobs, queue, calls, payments, redis, blobs>>

\* one iteration of "for _, page in ordered_pages": download_to_bytes returns the
\* file or raises; wave.open, getparams for the first file, readframes
FetchPage(p) ==
    LET r == req[p]
        path == r.ordered[r.idx].audio_url
    IN /\ r.op \in WavOps /\ r.pc = "fetch" /\ r.idx <= Len(r.ordered)
       /\ \/ req' = [req EXCEPT ![p] =
                       [r EXCEPT !.params = IF r.params = NoParams THEN GetParams(path)
                                            ELSE r.params,
                                 !.pcm_chunks = Append(@, ReadFrames(path)),
                                 !.total_frames = @ + GetParams(path).nframes,
                                 !.fetched = Append(@, r.ordered[r.idx]),
                                 !.idx = @ + 1]]
          \/ req' = [req EXCEPT ![p] = Finish(r, "FetchFailure")]
       /\ UNCHANGED <<credits, jobs, queue, calls, payments, redis, blobs>>

\* the StreamingResponse over wav_stream() / wav_file(): one WAV written to a buffer,
\* then read out to the caller
BuildWav(p) ==
    LET r == req[p]
    IN /\ r.op \in WavOps /\ r.pc = "fetch" /\ r.idx > Len(r.ordered)
       /\ req' = [req EXCEPT ![p] =
                    IF r.params = NoParams THEN Finish(r, "BuildFailure")
                    ELSE Finish([r EXCEPT
                                   !.out_header = WaveHeader(r.params, r.pcm_chunks),
                                   !.emitted = WaveBytes(r.params, r.pcm_chunks)],
                                "Success")]
       /\ UNCHANGED <<credits, jobs, queue, calls, payments, redis, blobs>>

\* filter {"access_token": token}
TokenJobs(token) == {j \in DOMAIN jobs : jobs[j].exists /\ jobs[j].access_token = token}

\* stream_audio and download_audio of main.py up to the first part: find_one by
\* token, final_parts
TokenAudio(p, op, token) ==
    /\ Free(p)
    /\ calls < MaxAudioCalls
    /\ calls' = calls + 1
    /\ LET r == [AudioIdle EXCEPT !.op = op]
       IN req' = [req EXCEPT ![p] =
                    IF TokenJobs(token) = {} THEN Finish(r, "InvalidToken")
                    ELSE LET j == CHOOSE k \in TokenJobs(token) : TRUE
                         IN IF jobs[j].final_parts = <<>>
                            THEN Finish([r EXCEPT !.job = j], "AudioNotFound")
                            ELSE [r EXCEPT !.job = j, !.pc = "part", !.idx = 0,
                                           !.parts = jobs[j].final_parts]]
    /\ UNCHANGED <<credits, jobs, queue, payments, redis, blobs>>

\* audio_bytes[44:]
Strip(bytes) == SubSeq(bytes, StripLen + 1, Len(bytes))

\* one iteration of "for idx, public_url in enumerate(final_parts)" of
\* audio_generator, whose bytes go to the caller as they are yielded
StreamAudioPart(p) ==
    LET r == req[p]
        path == r.parts[r.idx + 1]
        audio_bytes == IF r.idx > 0 THEN Strip(FileBytes(path)) ELSE FileBytes(path)
    IN /\ r.op = "stream_audio" /\ r.pc = "part"
       /\ \/ LET r1 == [r EXCEPT !.emitted = @ \o audio_bytes,
                                 !.fetched = Append(@, path), !.idx = @ + 1]
             IN req' = [req EXCEPT ![p] =
                          IF r1.idx = Len(r.parts) THEN Finish(r1, "Success") ELSE r1]
          \/ req' = [req EXCEPT ![p] = Finish(r, "FetchFailure")]
       /\ UNCHANGED <<credits, jobs, queue, calls, payments, redis, blobs>>

\* one iteration of the loop of download_audio (main.py), which writes to output and
\* responds with it after the last part
MainDownloadPart(p) ==
    LET r == req[p]
        path == r.parts[r.idx + 1]
        audio_bytes == IF r.idx > 0 THEN Strip(FileBytes(path)) ELSE FileBytes(path)
    IN /\ r.op = "main_download_audio" /\ r.pc = "part"
       /\ \/ LET r1 == [r EXCEPT !.output = @ \o audio_bytes,
                                 !.fetched = Append(@, path), !.idx = @ + 1]
             IN req' = [req EXCEPT ![p] =
                          IF r1.idx = Len(r.parts)
                          THEN Finish([r1 EXCEPT !.emitted = r1.output], "Success")
                          ELSE r1]
          \/ req' = [req EXCEPT ![p] = Finish(r, "FetchFailure")]
       /\ UNCHANGED <<credits, jobs, queue, calls, payments, redis, blobs>>

InitAudio ==
    /\ \E c \in AudioCredits : credits = [u \in Users |-> c]
    /\ \E has_pages \in BOOLEAN, pages \in PageMaps, parts \in PartLists :
          /\ ~has_pages => pages = <<>>
          /\ jobs = [j \in {UserJob} |-> AudioJob(has_pages, pages, parts)]
    /\ queue = <<>>
    /\ req = [p \in Procs |-> AudioIdle]
    /\ calls = 0
    /\ payments = <<>>
    /\ redis = <<>>
    /\ blobs = <<>>

NextAudio ==
    \/ \E p \in Procs, u \in Users : StreamWav(p, u, UserJob)
    \/ \E p \in Procs, u \in Users : DownloadAudio(p, u, UserJob)
    \/ \E p \in Procs : DownloadDeduct(p)
    \/ \E p \in Procs : FetchPage(p)
    \/ \E p \in Procs : BuildWav(p)
    \/ \E p \in Procs, op \in TokenOps, token \in Tokens : TokenAudio(p, op, token)
    \/ \E p \in Procs : StreamAudioPart(p)
    \/ \E p \in Procs : MainDownloadPart(p)

SpecAudio == InitAudio /\ [][NextAudio]_vars

----------------------------------------------------------------------------
(* verify_payment, payments/paystack.py *)

MaxPayCalls == 3        \* requests the server receives in one behaviour of SpecPay

\* credit = 10 of register
SignupCredit == 10

Reference == "ref1"
References == {Reference, "ref2"}

NoPayment == [exists |-> FALSE, user_id |-> "none", credits |-> 0, status |-> "none"]

\* the document initiate_payment inserts: "user_id": user["_id"], "status": "pending"
PendingPayment(u, n) ==
    [exists |-> TRUE, user_id |-> u, credits |-> n, status |-> "pending"]

\* what Paystack answers to transaction/verify: the transaction succeeded, it did
\* not, or the response is not ok
PaystackAnswers == {"success", "abandoned", "error"}

PayIdle ==
    [op |-> "idle", pc |-> "idle", user |-> "none", reference |-> "none",
     payment |-> NoPayment, result |-> "none",
     \* history of the call, read by the properties only
     credited |-> 0]

\* verify_payment: find_one({"reference": reference}) and the check of its status
VerifyPayment(p, u, reference) ==
    /\ Free(p)
    /\ calls < MaxPayCalls
    /\ calls' = calls + 1
    /\ LET r == [PayIdle EXCEPT !.op = "verify_payment", !.user = u,
                                !.reference = reference]
           payment == payments[reference]
       IN req' = [req EXCEPT ![p] =
                    IF ~payment.exists THEN Finish(r, "PaymentNotFound")
                    ELSE IF payment.status = "success"
                    THEN Finish(r, "AlreadyVerified")
                    ELSE [r EXCEPT !.pc = "paystack", !.payment = payment]]
    /\ UNCHANGED <<credits, jobs, queue, payments, redis, blobs>>

\* requests.get(transaction/verify), the checks of the answer, then the check that
\* the caller is the payer
VerifyPaystack(p) ==
    LET r == req[p]
    IN /\ r.op = "verify_payment" /\ r.pc = "paystack"
       /\ \E answer \in PaystackAnswers :
            req' = [req EXCEPT ![p] =
                      IF answer = "error" THEN Finish(r, "VerificationFailed")
                      ELSE IF answer # "success" THEN Finish(r, "PaymentNotSuccessful")
                      ELSE IF r.user # r.payment.user_id THEN Finish(r, "Unauthorized")
                      ELSE [r EXCEPT !.pc = "credit"]]
       /\ UNCHANGED <<credits, jobs, queue, calls, payments, redis, blobs>>

\* users_collection.update_one({"_id": payment["user_id"]},
\*                             {"$inc": {"credits": payment["credits"]}})
VerifyCredit(p) ==
    LET r == req[p]
    IN /\ r.op = "verify_payment" /\ r.pc = "credit"
       /\ credits' = [credits EXCEPT ![r.payment.user_id] = @ + r.payment.credits]
       /\ req' = [req EXCEPT ![p] =
                    [r EXCEPT !.pc = "mark", !.credited = r.payment.credits]]
       /\ UNCHANGED <<jobs, queue, calls, payments, redis, blobs>>

\* payments_collection.update_one({"reference": reference},
\*                                {"$set": {"status": "success", ...}})
VerifyMark(p) ==
    LET r == req[p]
    IN /\ r.op = "verify_payment" /\ r.pc = "mark"
       /\ payments' = [payments EXCEPT ![r.reference].status = "success"]
       /\ req' = [req EXCEPT ![p] = Finish(r, "Success")]
       /\ UNCHANGED <<credits, jobs, queue, calls, redis, blobs>>

\* One payment of 5 credits initiated by user u1; no payment has reference "ref2".
InitPay ==
    /\ credits = [u \in Users |-> SignupCredit]
    /\ jobs = <<>>
    /\ queue = <<>>
    /\ req = [p \in Procs |-> PayIdle]
    /\ calls = 0
    /\ payments = [ref \in References |->
                     IF ref = Reference THEN PendingPayment("u1", 5) ELSE NoPayment]
    /\ redis = <<>>
    /\ blobs = <<>>

NextPay ==
    \/ \E p \in Procs, u \in Users, reference \in References :
         VerifyPayment(p, u, reference)
    \/ \E p \in Procs : VerifyPaystack(p)
    \/ \E p \in Procs : VerifyCredit(p)
    \/ \E p \in Procs : VerifyMark(p)

SpecPay == InitPay /\ [][NextPay]_vars

----------------------------------------------------------------------------
(* rate_limit, core/rate_limiter.py: the counter of one key *)

MaxRateCalls == 4       \* calls of rate_limit in one behaviour of SpecRate

\* the limit argument the callers of the key pass
RateLimits == {1, 2}

\* value 0: the key does not exist; ttl: the key has an expiry.  gen, limit and
\* served are not Redis state: the number of counters created so far, the limit
\* of the key, and per counter the calls on it that returned normally.
NoCounter(limit) ==
    [value |-> 0, ttl |-> FALSE, gen |-> 0, limit |-> limit,
     served |-> [g \in 1..MaxRateCalls |-> 0]]

RateIdle ==
    [op |-> "idle", pc |-> "idle", current |-> 0, gen |-> 0, result |-> "none"]

OverLimitLoose(current, limit) == current > limit + 1

\* if current > limit: raise 429
OverLimit(current, limit) == current > limit

\* current = redis_client.incr(key): creates the key at 1 when it does not exist
RateIncr(p) ==
    /\ Free(p)
    /\ calls < MaxRateCalls
    /\ calls' = calls + 1
    /\ LET current == redis.value + 1
           gen == IF redis.value = 0 THEN redis.gen + 1 ELSE redis.gen
       IN /\ redis' = [redis EXCEPT !.value = current, !.gen = gen]
          /\ req' = [req EXCEPT ![p] =
                       [RateIdle EXCEPT !.op = "rate_limit", !.current = current,
                                        !.gen = gen,
                                        !.pc = IF current = 1 THEN "expire"
                                               ELSE "check"]]
    /\ UNCHANGED <<credits, jobs, queue, payments, blobs>>

\* if current == 1: redis_client.expire(key, window_seconds); or the caller stops
\* before it (the call raises, the worker is killed)
RateExpire(p) ==
    LET r == req[p]
    IN /\ r.op = "rate_limit" /\ r.pc = "expire"
       /\ \/ /\ redis' = [redis EXCEPT !.ttl = redis.value > 0]
             /\ req' = [req EXCEPT ![p] = [r EXCEPT !.pc = "check"]]
          \/ /\ req' = [req EXCEPT ![p] = Finish(r, "Stopped")]
             /\ UNCHANGED redis
       /\ UNCHANGED <<credits, jobs, queue, calls, payments, blobs>>

\* if current > limit: raise HTTPException(429); else return
RateCheck(p) ==
    LET r == req[p]
    IN /\ r.op = "rate_limit" /\ r.pc = "check"
       /\ IF OverLimit(r.current, redis.limit)
          THEN /\ req' = [req EXCEPT ![p] = Finish(r, "TooManyRequests")]
               /\ UNCHANGED redis
          ELSE /\ req' = [req EXCEPT ![p] = Finish(r, "Allowed")]
               /\ redis' = [redis EXCEPT !.served[r.gen] = @ + 1]
       /\ UNCHANGED <<credits, jobs, queue, calls, payments, blobs>>

\* Redis deletes a key whose expiry has passed
KeyExpires ==
    /\ redis.value > 0 /\ redis.ttl
    /\ redis' = [redis EXCEPT !.value = 0, !.ttl = FALSE]
    /\ UNCHANGED <<credits, jobs, queue, req, calls, payments, blobs>>

InitRate ==
    /\ credits = <<>>
    /\ jobs = <<>>
    /\ queue = <<>>
    /\ req = [p \in Procs |-> RateIdle]
    /\ calls = 0
    /\ payments = <<>>
    /\ \E limit \in RateLimits : redis = NoCounter(limit)
    /\ blobs = <<>>

NextRate ==
    \/ \E p \in Procs : RateIncr(p)
    \/ \E p \in Procs : RateExpire(p)
    \/ \E p \in Procs : RateCheck(p)
    \/ KeyExpires

SpecRate == InitRate /\ [][NextRate]_vars

----------------------------------------------------------------------------
(* merge_job_mp3s, backend/tasks.py: the audio folder of one job *)

MaxMergeCalls == 2      \* merge tasks in one behaviour of SpecMerge

\* the page numbers of the job
MergePages == {1, 2, 10}

\* str(n), as character codes ("0" is 48)
StrInt(n) == IF n < 10 THEN <<48 + n>> ELSE <<48 + (n \div 10), 48 + (n % 10)>>

\* f"page_{page_number}.mp3", as character codes
Mp3Name(n) == <<112, 97, 103, 101, 95>> \o StrInt(n) \o <<46, 109, 112, 51>>

RECURSIVE StrLess(_, _)
\* a < b of two Python strings: by the first differing character, a proper
\* prefix first
StrLess(a, b) ==
    IF b = <<>> THEN FALSE
    ELSE IF a = <<>> THEN TRUE
    ELSE IF a[1] # b[1] THEN a[1] < b[1]
    ELSE StrLess(Tail(a), Tail(b))

\* x placed after every name that is not greater as a string
InsertName(sorted, x) ==
    LET n == Cardinality({i \in 1..Len(sorted) : ~StrLess(x, sorted[i])})
    IN SubSeq(sorted, 1, n) \o <<x>> \o SubSeq(sorted, n + 1, Len(sorted))

RECURSIVE SortedNames(_)
\* sorted([f["name"] for f in files if f["name"].endswith(".mp3")])
SortedNames(names) ==
    IF names = {} THEN <<>>
    ELSE LET x == CHOOSE y \in names : TRUE
         IN InsertName(SortedNames(names \ {x}), x)

\* the page whose audio is stored under the name
PageOfName(name) == CHOOSE n \in MergePages : Mp3Name(n) = name

MergeIdle ==
    [op |-> "idle", pc |-> "idle", mp3_names |-> <<>>, local_paths |-> <<>>,
     result |-> "none"]

\* process_page_task: upload_file_to_supabase(local_mp3, remote_mp3)
ProcessPageUpload(n) ==
    /\ n \notin blobs.audio
    /\ blobs' = [blobs EXCEPT !.audio = @ \cup {n}]
    /\ UNCHANGED <<credits, jobs, queue, req, calls, payments, redis>>

\* files = ...list(path_to_audio); mp3_names = sorted(...)
MergeList(p) ==
    /\ Free(p)
    /\ calls < MaxMergeCalls
    /\ calls' = calls + 1
    /\ LET mp3_names == SortedNames({Mp3Name(n) : n \in blobs.audio})
       IN req' = [req EXCEPT ![p] =
                    [MergeIdle EXCEPT !.op = "merge_job_mp3s", !.pc = "download",
                                      !.mp3_names = mp3_names]]
    /\ UNCHANGED <<credits, jobs, queue, payments, redis, blobs>>

\* for name in mp3_names: download_file_from_supabase(...); local_paths.append(lp)
MergeDownload(p) ==
    LET r == req[p]
        i == Len(r.local_paths) + 1
    IN /\ r.op = "merge_job_mp3s" /\ r.pc = "download"
       /\ IF i > Len(r.mp3_names)
          THEN req' = [req EXCEPT ![p] = [r EXCEPT !.pc = "merge"]]
          ELSE \/ req' = [req EXCEPT ![p] =
                            [r EXCEPT !.local_paths =
                                        Append(@, PageOfName(r.mp3_names[i]))]]
               \/ req' = [req EXCEPT ![p] = Finish(r, "DownloadError")]
       /\ UNCHANGED <<credits, jobs, queue, calls, payments, redis, blobs>>

\* merged += AudioSegment.from_mp3(lp) for each local path; export;
\* upload_file_to_supabase(final_local, remote)
MergeUpload(p) ==
    LET r == req[p]
    IN /\ r.op = "merge_job_mp3s" /\ r.pc = "merge"
       /\ \/ /\ blobs' = [blobs EXCEPT !.final = r.local_paths, !.merged = TRUE]
             /\ req' = [req EXCEPT ![p] = Finish(r, "merged")]
          \/ /\ req' = [req EXCEPT ![p] = Finish(r, "UploadError")]
             /\ UNCHANGED blobs
       /\ UNCHANGED <<credits, jobs, queue, calls, payments, redis>>

InitMerge ==
    /\ credits = <<>>
    /\ jobs = <<>>
    /\ queue = <<>>
    /\ req = [p \in Procs |-> MergeIdle]
    /\ calls = 0
    /\ payments = <<>>
    /\ redis = <<>>
    /\ \E audio \in SUBSET MergePages :
          blobs = [audio |-> audio, final |-> <<>>, merged |-> FALSE]

NextMerge ==
    \/ \E n \in MergePages : ProcessPageUpload(n)
    \/ \E p \in Procs : MergeList(p)
    \/ \E p \in Procs : MergeDownload(p)
    \/ \E p \in Procs : MergeUpload(p)

SpecMerge == InitMerge /\ [][NextMerge]_vars

----------------------------------------------------------------------------
(* cleanup_expired_files, jobs/router.py *)

MaxCleanupCalls == 2    \* cleanup calls in one behaviour of SpecCleanup

CLEANUP_SECRET_KEY == "my_cron_secret"

CleanupKeys == {CLEANUP_SECRET_KEY, "wrong"}

\* the job ids, in the order the cursor returns the documents
CleanupJobs == <<"j1", "j2">>

\* a job document without the field expires_at (an admin job)
NoExpiry == 0

\* created_at + timedelta(days=5) of the stored jobs, and the times of the calls
ExpiryTimes == {1, 3}
NowTimes == {2, 4}

CleanupJob(j, expires_at) ==
    [job_id |-> j, expires_at |-> expires_at, remote_pdf_path |-> <<"pdfs", j>>]

\* jobs_collection.find({"expires_at": {"$lt": now}})
Expired(now) ==
    SelectSeq(CleanupJobs,
              LAMBDA j : jobs[j].expires_at # NoExpiry /\ jobs[j].expires_at < now)

CleanupIdle ==
    [op |-> "idle", pc |-> "idle", now |-> 0, expired_jobs |-> <<>>,
     deleted_count |-> 0, errors |-> <<>>, removed |-> {}, failed |-> {},
     result |-> "none"]

\* if key != CLEANUP_SECRET_KEY: raise 403; expired_jobs = find(...)
CleanupCall(p, key, now) ==
    /\ Free(p)
    /\ calls < MaxCleanupCalls
    /\ calls' = calls + 1
    /\ LET r == [CleanupIdle EXCEPT !.op = "cleanup_expired_files", !.now = now]
       IN IF key # CLEANUP_SECRET_KEY
          THEN req' = [req EXCEPT ![p] = Finish(r, "NotAuthorized")]
          ELSE req' = [req EXCEPT ![p] =
                         [r EXCEPT !.pc = "loop", !.expired_jobs = Expired(now)]]
    /\ UNCHANGED <<credits, jobs, queue, payments, redis, blobs>>

\* one turn of the loop: delete_file(remote_path) removes the blob and returns
\* True, or catches the exception of the store and returns False; the handler
\* does not look at the value.  removed and failed are not program state: the
\* blobs this call deleted, the jobs whose deletion failed.
CleanupDelete(p) ==
    LET r == req[p]
    IN /\ r.op = "cleanup_expired_files" /\ r.pc = "loop"
       /\ r.expired_jobs # <<>>
       /\ LET job == jobs[Head(r.expired_jobs)]
              remote_path == job.remote_pdf_path
              rest == [r EXCEPT !.expired_jobs = Tail(@)]
          IN IF remote_path = <<>>
             THEN /\ req' = [req EXCEPT ![p] = rest]
                  /\ UNCHANGED blobs
             ELSE \/ /\ blobs' = [blobs EXCEPT ![remote_path] = FALSE]
                     /\ req' = [req EXCEPT ![p] =
                                  [rest EXCEPT !.deleted_count = @ + 1,
                                               !.removed =
                                                  IF blobs[remote_path]
                                                  THEN @ \cup {remote_path}
                                                  ELSE @]]
                  \/ /\ UNCHANGED blobs
                     /\ req' = [req EXCEPT ![p] =
                                  [rest EXCEPT !.deleted_count = @ + 1,
                                               !.failed = @ \cup {job.job_id}]]
       /\ UNCHANGED <<credits, jobs, queue, calls, payments, redis>>

\* return {"status": "done", "deleted_files": deleted_count, "errors": errors}
CleanupReturn(p) ==
    LET r == req[p]
    IN /\ r.op = "cleanup_expired_files" /\ r.pc = "loop"
       /\ r.expired_jobs = <<>>
       /\ req' = [req EXCEPT ![p] = Finish(r, "done")]
       /\ UNCHANGED <<credits, jobs, queue, calls, payments, redis, blobs>>

InitCleanup ==
    /\ credits = <<>>
    /\ \E e1 \in ExpiryTimes, e2 \in ExpiryTimes \cup {NoExpiry} :
          jobs = [j \in {"j1", "j2"} |->
                    CleanupJob(j, IF j = "j1" THEN e1 ELSE e2)]
    /\ queue = <<>>
    /\ req = [p \in Procs |-> CleanupIdle]
    /\ calls = 0
    /\ payments = <<>>
    /\ redis = <<>>
    /\ blobs = [path \in {<<"pdfs", "j1">>, <<"pdfs", "j2">>} |-> TRUE]

NextCleanup ==
    \/ \E p \in Procs, key \in CleanupKeys, now \in NowTimes : CleanupCall(p, key, now)
    \/ \E p \in Procs : CleanupDelete(p)
    \/ \E p \in Procs : CleanupReturn(p)

SpecCleanup == InitCleanup /\ [][NextCleanup]_vars

----------------------------------------------------------------------------
(* build_playlist_response, supabase_client.py *)

MaxPlaylistCalls == 2   \* calls in one behaviour of SpecPlaylist

\* what create_signed_url does on one attempt: it returns a dict with the URL,
\* a dict with neither "signedURL" nor "signed_url", or it raises
SignedAnswers == {"url", "no_url", "raise"}

\* None, and a path or a sync path that the page does not have
NoUrl == <<>>

PlaylistItem(key, has_audio, has_sync) ==
    [key |-> key,
     audio_path |-> IF has_audio THEN <<"audio">> \o key ELSE <<>>,
     sync_path |-> IF has_sync THEN <<"sync">> \o key ELSE <<>>,
     duration |-> KeyInt(key)]

\* the page keys of the job in stored order, as the digits after "page_"
PlaylistKeys == { <<>>, <<<<2>>, <<1, 0>>>>, <<<<1, 0>>, <<2>>, <<1>>>> }

\* _safe_create_signed_url: the value it returns, and the attempts it made
SafeCreateSignedUrl(path, a1, a2) ==
    LET Get(a) == IF a = "url" THEN <<"signed">> \o path ELSE NoUrl
    IN IF a1 # "raise" THEN [url |-> Get(a1), attempts |-> <<a1>>]
       ELSE IF a2 # "raise" THEN [url |-> Get(a2), attempts |-> <<a1, a2>>]
       ELSE [url |-> NoUrl, attempts |-> <<a1, a2>>]

\* the rank of the key as a string: "1" < "10" < "2"
PlaylistSortKeyLex(k) == k[1] * 100 + (IF Len(k) > 1 THEN k[2] + 1 ELSE 0)

\* page_sort_key: int(k.split("_")[-1])
PlaylistSortKey(k) == KeyInt(k)

\* k placed after every key whose sort key is not greater (sorted is stable)
InsertKey(sorted, k) ==
    LET n == Cardinality({i \in 1..Len(sorted) :
                             PlaylistSortKey(sorted[i]) <= PlaylistSortKey(k)})
    IN SubSeq(sorted, 1, n) \o <<k>> \o SubSeq(sorted, n + 1, Len(sorted))

RECURSIVE OrderedKeys(_)
\* sorted(pages.keys(), key=page_sort_key)
OrderedKeys(keys) ==
    IF keys = <<>> THEN <<>>
    ELSE InsertKey(OrderedKeys(SubSeq(keys, 1, Len(keys) - 1)), keys[Len(keys)])

\* pages[key]
PlaylistPageOf(job, key) ==
    job.pages[CHOOSE n \in DOMAIN job.pages : job.pages[n].key = key]

PlaylistIdle ==
    [op |-> "idle", pc |-> "idle", job |-> "none", ordered_keys |-> <<>>,
     playlist |-> <<>>, log |-> <<>>, result |-> "none"]

\* pages = job.get("pages", {}); ordered_keys = sorted(pages.keys(), ...)
PlaylistCall(p, j) ==
    /\ Free(p)
    /\ calls < MaxPlaylistCalls
    /\ calls' = calls + 1
    /\ LET keys == [n \in DOMAIN jobs[j].pages |-> jobs[j].pages[n].key]
       IN req' = [req EXCEPT ![p] =
                    [PlaylistIdle EXCEPT !.op = "build_playlist_response",
                                         !.pc = "loop", !.job = j,
                                         !.ordered_keys = OrderedKeys(keys)]]
    /\ UNCHANGED <<credits, jobs, queue, payments, redis, blobs>>

\* one turn of the loop for key in ordered_keys; a1, a2 and s1, s2 are the
\* answers of the store to the attempts for the audio and for the sync URL.
\* log is not program state: the attempts made for each key.
PlaylistPage(p, a1, a2, s1, s2) ==
    LET r == req[p]
    IN /\ r.op = "build_playlist_response" /\ r.pc = "loop"
       /\ r.ordered_keys # <<>>
       /\ LET key == Head(r.ordered_keys)
              page == PlaylistPageOf(jobs[r.job], key)
              rest == [r EXCEPT !.ordered_keys = Tail(@)]
              audio == SafeCreateSignedUrl(page.audio_path, a1, a2)
              sync == IF page.sync_path # <<>>
                      THEN SafeCreateSignedUrl(page.sync_path, s1, s2)
                      ELSE [url |-> NoUrl, attempts |-> <<>>]
              Logged(a, s) == [key |-> key, audio |-> a, sync |-> s]
          IN req' = [req EXCEPT ![p] =
                IF page.audio_path = <<>>
                THEN [rest EXCEPT !.log = Append(@, Logged(<<>>, <<>>))]
                ELSE IF audio.url = NoUrl
                THEN [rest EXCEPT !.log = Append(@, Logged(audio.attempts, <<>>))]
                ELSE [rest EXCEPT
                        !.log = Append(@, Logged(audio.attempts, sync.attempts)),
                        !.playlist = Append(@, [page |-> key,
                                                audio_url |-> audio.url,
                                                sync_url |-> sync.url,
                                                duration |-> page.duration])]]
       /\ UNCHANGED <<credits, jobs, queue, calls, payments, redis, blobs>>

\* return {"job_id": ..., "title": ..., "pages": playlist}
PlaylistReturn(p) ==
    LET r == req[p]
    IN /\ r.op = "build_playlist_response" /\ r.pc = "loop"
       /\ r.ordered_keys = <<>>
       /\ req' = [req EXCEPT ![p] = Finish(r, "ok")]
       /\ UNCHANGED <<credits, jobs, queue, calls, payments, redis, blobs>>

InitPlaylist ==
    /\ credits = <<>>
    /\ \E keys \in PlaylistKeys :
          \E has_audio, has_sync \in [DOMAIN keys -> BOOLEAN] :
              jobs = [j \in {"j1"} |->
                        [job_id |-> j,
                         pages |-> [n \in DOMAIN keys |->
                                      PlaylistItem(keys[n], has_audio[n],
                                                   has_sync[n])]]]
    /\ queue = <<>>
    /\ req = [p \in Procs |-> PlaylistIdle]
    /\ calls = 0
    /\ payments = <<>>
    /\ redis = <<>>
    /\ blobs = <<>>

NextPlaylist ==
    \/ PlaylistCall("p1", "j1")
    \/ \E a1, a2, s1, s2 \in SignedAnswers : PlaylistPage("p1", a1, a2, s1, s2)
    \/ PlaylistReturn("p1")

SpecPlaylist == InitPlaylist /\ [][NextPlaylist]_vars

----------------------------------------------------------------------------
(* Properties of the review workflow *)

\* the call of slot p ran from its arrival to its response with no other request in
\* flight, and no request has arrived since
RanAlone(p) == req[p].pc = "done" /\ req[p].alone /\ req[p].num = calls

\* the owner of job j holds the cost of its pages
OwnerCanPay(j) ==
    \A u \in Users :
        StrId[u] = jobs[j].user_id => credits[u] >= PAGE_COST * jobs[j].num_pages

\* C11: an approve_review call of an admin on a job whose review_status is not
\* "pending" fails, writes nothing to the job and debits nothing; an approve_review
\* call served alone on a pending job whose owner holds the cost succeeds, and the
\* approve_review call served right after a successful one, alone too, fails.
C11_ApproveOnlyPending ==
    \A p \in Procs :
        Done(p, "approve_review") /\ req[p].result # "AdminRequired" =>
            /\ req[p].status0 # "pending" =>
                 /\ req[p].result = "NotPending"
                 /\ ~req[p].wrote /\ req[p].debited = 0
            /\ req[p].status0 = "pending" /\ RanAlone(p) /\ OwnerCanPay(req[p].job)
                 => req[p].result = "Success"
            /\ \A q \in Procs \ {p} :
                 /\ Done(q, "approve_review") /\ req[q].result = "Success"
                 /\ req[q].job = req[p].job
                 /\ req[p].num = req[q].num + 1 /\ RanAlone(p)
                 => req[p].result = "NotPending"

ReviewMoves ==
    {<<"none", "pending">>, <<"pending", "approved">>, <<"pending", "declined">>,
     <<"approved", "done">>}

\* the step is the update_one of the approve_review, decline_review or
\* done_processing call of slot p
AdminWrite(p) ==
    req[p].op \in AdminOps /\ req[p].pc = "update" /\ req'[p].pc = "notify"

ReviewRequests(j) ==
    {i \in 1..Len(queue) : queue[i].job = j /\ queue[i].state = "pending"}

\* C14: of the request_full_review calls on one job at most one writes
\* review_required and review_status "pending" and succeeds, a call rejected as
\* already requested writes and sends nothing, and at most one review request
\* notification is sent for the job.
C14_RequestOnce ==
    /\ \A p, q \in Procs :
          /\ p # q
          /\ req[p].op = "request_full_review" /\ req[q].op = "request_full_review"
          /\ req[p].job = req[q].job
          => ~(req[p].wrote /\ req[q].wrote)
    /\ \A p \in Procs :
          Done(p, "request_full_review") /\ req[p].result = "AlreadyRequested" =>
              ~req[p].wrote /\ ~req[p].notified
    /\ \A j \in DOMAIN jobs : Cardinality(ReviewRequests(j)) <= 1

\* C15: a request_full_review, approve_review, decline_review or done_processing
\* call whose notification submission raised has committed its transition and
\* responds with success.
C15_NotifyFailureHarmless ==
    \A p \in Procs :
        req[p].op \in ReviewOps /\ req[p].pc = "done" /\ req[p].notify_failed =>
            /\ req[p].wrote
            /\ req[p].result = "Success"

----------------------------------------------------------------------------
(* Properties of the ledger, under Spec *)

DebitOps == {"start_job", "reupload_pdf"}

\* the amount the call of slot p asks deduct_credits_atomic for in the step taken
Asked(p) == IF req[p].op = "start_job" THEN req'[p].total_cost ELSE UPLOAD_COST

\* the step is the call of deduct_credits_atomic by slot p
DebitStep(p) ==
    /\ req[p].op \in DebitOps /\ req[p].pc = "deduct"
    /\ req'[p].pc \in {"send", "store"} \/ req'[p].result = "InsufficientCredits"

\* C16: a deduct_credits_atomic(user, amount) step lowers the user's balance by
\* exactly amount and succeeds when the balance is at least amount at that step,
\* and otherwise fails with insufficient credits and leaves the balance as it was;
\* an add_credits(user, amount) step raises the balance by exactly amount; neither
\* touches another user's balance.
C16_DebitOrFail ==
    [][\A p \in Procs :
          /\ DebitStep(p) =>
               LET u == req[p].user
                   amount == Asked(p)
               IN /\ \A v \in Users \ {u} : credits'[v] = credits[v]
                  /\ IF credits[u] >= amount
                     THEN /\ credits'[u] = credits[u] - amount
                          /\ req'[p].pc # "done"
                     ELSE /\ credits'[u] = credits[u]
                          /\ req'[p].result = "InsufficientCredits"
          /\ req[p].op \in DebitOps /\ req[p].pc = "refund" /\ req'[p].pc = "done" =>
               /\ credits'[req[p].user] = credits[req[p].user] + req[p].total_cost
               /\ \A v \in Users \ {req[p].user} : credits'[v] = credits[v]]_vars

\* one call has debited its cost, another was refused for a balance below its cost,
\* and a third step refunded
C16_Witness ==
    \E p, q \in Procs :
        /\ req[p].op \in DebitOps /\ req[p].debited > 0
        /\ Done(q, "reupload_pdf") /\ req[q].result = "InsufficientCredits"

----------------------------------------------------------------------------
(* Properties of audio reassembly, under SpecAudio *)

RECURSIVE SumFrames(_)
\* the frame counts of the files at paths, added up
SumFrames(paths) ==
    IF paths = <<>> THEN 0
    ELSE Bucket[paths[1]].nframes + SumFrames(SubSeq(paths, 2, Len(paths)))

RECURSIVE ConcatData(_)
\* the sample data of the files at paths, one after the other
ConcatData(paths) ==
    IF paths = <<>> THEN <<>>
    ELSE DataBytes(paths[1]) \o ConcatData(SubSeq(paths, 2, Len(paths)))

Urls(items) == [i \in 1..Len(items) |-> items[i].audio_url]

Merged(p) == req[p].op \in WavOps /\ req[p].pc = "done" /\ req[p].result = "Success"

\* the sample data that follows the handler's header in what slot p emitted
WavPayload(p) == SubSeq(req[p].emitted, WriterHeaderLen + 1, Len(req[p].emitted))

\* C17: the merged audio of a successful stream_wav or download_audio call holds
\* every page of the stored page map once, the segments in ascending order of the
\* integer value of their keys, whatever the stored order of the items.
C17_NumericPageOrder ==
    \A p \in Procs :
        Merged(p) =>
            LET pages == jobs[req[p].job].pages
                f == req[p].fetched
            IN /\ Len(f) = Len(pages)
               /\ {f[i] : i \in 1..Len(f)} = {pages[i] : i \in 1..Len(pages)}
               /\ \A i, k \in 1..Len(f) : i < k => KeyInt(f[i].key) <= KeyInt(f[k].key)
               /\ WavPayload(p) = ConcatData(Urls(f))

\* pages stored as page_1, page_10, page_2 were merged as page_1, page_2, page_10
C17_Witness ==
    \E p \in Procs :
        /\ Merged(p)
        /\ Len(jobs[req[p].job].pages) = 3
        /\ jobs[req[p].job].pages[2].key = <<1, 0>>
        /\ jobs[req[p].job].pages[3].key = <<2>>
        /\ req[p].fetched[2].key = <<2>>
        /\ req[p].fetched[3].key = <<1, 0>>

CommonFormat(items) ==
    \A i, k \in 1..Len(items) :
        Bucket[items[i].audio_url].fmt = Bucket[items[k].audio_url].fmt

\* C18: when the segments of the page map have one common format, what a successful
\* stream_wav or download_audio call emits is one header, of that format and
\* declaring the sum of the segments' frame counts, followed by the sample data of
\* every segment in page order and by nothing else.
C18_OneHeaderAllFrames ==
    \A p \in Procs :
        Merged(p) /\ CommonFormat(jobs[req[p].job].pages) =>
            LET urls == Urls(SortedPages(jobs[req[p].job].pages))
                out == req[p].emitted
            IN /\ req[p].out_header.nframes = SumFrames(urls)
               /\ req[p].out_header.nchannels = Bucket[urls[1]].fmt.nchannels
               /\ req[p].out_header.sampwidth = Bucket[urls[1]].fmt.sampwidth
               /\ req[p].out_header.framerate = Bucket[urls[1]].fmt.framerate
               /\ \A i \in 1..Len(out) : out[i].h <=> i <= WriterHeaderLen
               /\ WavPayload(p) = ConcatData(urls)
               /\ Len(WavPayload(p)) =
                    SumFrames(urls) * FrameSize(Bucket[urls[1]].fmt)

\* three segments of one format, one of them with a 46-byte header, were merged
C18_Witness ==
    \E p \in Procs :
        /\ Merged(p)
        /\ Len(req[p].fetched) = 3
        /\ CommonFormat(jobs[req[p].job].pages)
        /\ \E i \in 1..3 : Bucket[req[p].fetched[i].audio_url].hdr # WriterHeaderLen
        /\ req[p].out_header.nframes = 4

\* the frame count declared by the header that starts bytes, the header of a file
\* of the bucket
RawDeclaredFrames(bytes) == Bucket[bytes[1].f].nframes

\* what follows that header
RawPayload(bytes) == SubSeq(bytes, Bucket[bytes[1].f].hdr + 1, Len(bytes))

\* C19: what a successful stream_audio or download_audio call of main.py emits is
\* one header declaring the sum of the parts' frame counts, followed by the sample
\* data of every part in order and by nothing else, whatever the length of the
\* parts' headers.
C19_TokenHeaderRecomputed ==
    \A p \in Procs :
        req[p].op \in TokenOps /\ req[p].pc = "done" /\ req[p].result = "Success" =>
            LET out == req[p].emitted
            IN /\ RawDeclaredFrames(out) = SumFrames(req[p].parts)
               /\ RawPayload(out) = ConcatData(req[p].parts)

\* C20: a reassembly call that could not fetch a segment has emitted no byte of
\* audio.
C20_NoPartialOutput ==
    \A p \in Procs :
        req[p].op \in AudioOps /\ req[p].pc = "done" /\ req[p].result = "FetchFailure" =>
            req[p].emitted = <<>>

\* the stored page map holds segments of more than one format
MixedFormat(p) == ~CommonFormat(jobs[req[p].job].pages)

\* C21: a stream_wav or download_audio call on a page map whose segments differ in
\* channel count, sample width or sample rate fails with a format mismatch and
\* emits no merged output.
C21_FormatMismatchFails ==
    \A p \in Procs :
        req[p].op \in WavOps /\ req[p].pc = "done" /\ MixedFormat(p)
        /\ Len(req[p].fetched) = Len(jobs[req[p].job].pages) =>
            /\ req[p].result = "FormatMismatch"
            /\ req[p].emitted = <<>>

NoAudioResults == {"NoAudioPages", "AudioNotAvailable"}

\* C22: a stream_wav or download_audio call of the owner, who holds the cost of a
\* download, on a job whose page map is empty or absent fails with a no-audio
\* error, having fetched no segment and emitted nothing.
C22_EmptyMapNoAudio ==
    \A p \in Procs :
        /\ req[p].op \in WavOps /\ req[p].pc = "done"
        /\ OwnReviewJob(jobs[req[p].job], req[p].user)
        /\ JobPages(jobs[req[p].job]) = <<>>
        /\ req[p].op = "download_audio" => req[p].bal0 >= DOWNLOAD_COST
        => /\ req[p].result \in NoAudioResults
           /\ req[p].fetched = <<>>
           /\ req[p].emitted = <<>>

\* C28: a download_audio call that failed after its debit, for a segment that
\* could not be fetched or a page map with nothing to merge, leaves the caller's
\* balance at its value before the request.
C28_ChargeOnlyForAudio ==
    \A p \in Procs :
        /\ req[p].op = "download_audio" /\ req[p].pc = "done"
        /\ req[p].result \in {"FetchFailure", "BuildFailure"}
        => credits[req[p].user] = req[p].bal0

----------------------------------------------------------------------------
(* Properties of the review gate and of the deferred debit, under SpecReview *)

\* the owner of job j holds less than the cost of its pages
OwnerShort(j) ==
    \A u \in Users :
        StrId[u] = jobs[j].user_id => credits[u] < PAGE_COST * jobs[j].num_pages

\* C23: an approve_review call of an admin, served alone on a pending job whose
\* owner holds less than num_pages x PAGE_COST, fails with insufficient credits,
\* leaves review_status "pending" and debits nothing.
C23_ApproveShortFails ==
    \A p \in Procs :
        /\ Done(p, "approve_review") /\ req[p].result # "AdminRequired"
        /\ req[p].status0 = "pending" /\ RanAlone(p) /\ OwnerShort(req[p].job)
        => /\ req[p].result = "InsufficientCredits"
           /\ jobs[req[p].job].review_status = "pending"
           /\ req[p].debited = 0

\* the page tasks in the queue
PageTasks == {i \in 1..Len(queue) : queue[i].state = "process_page"}

\* the process-job calls in the slots
ProcessCalls == {p \in Procs : req[p].op = "process_job"}

RequestStep(p) ==
    /\ req'[p] # req[p]
    /\ req'[p].op = "request_full_review"
    /\ req[p].op = "request_full_review" => req[p].pc # "done"

\* C25: no step of a request_full_review call changes a credit balance; a balance
\* changes only in the deduct_credits step of an approve_review call.
C25_RequestChargesNothing ==
    [][/\ \A p \in Procs : RequestStep(p) => credits' = credits
       /\ credits' # credits =>
            \E p \in Procs : /\ req[p].op = "approve_review" /\ req[p].pc = "deduct"
                              /\ req'[p].debited > 0]_vars

\* a request_full_review call has put the job under review and the owner holds
\* what they held
C25_Witness ==
    \E p \in Procs :
        /\ Done(p, "request_full_review") /\ req[p].result = "Success"
        /\ jobs[req[p].job].review_status = "pending"
        /\ credits[req[p].user] \in ReviewCredits

----------------------------------------------------------------------------
(* Properties of the refunds, under Spec *)

\* the step is taken by the start_job call of slot p
StartStep(p) ==
    /\ req[p].op = "start_job" /\ req[p].pc # "done"
    /\ req'[p] # req[p]

\* C26: a step of a start_job call raises the caller's balance only when the call
\* has debited and not refunded yet, by exactly the amount it debited, and is the
\* last step of the call; a call refunds in no other step, so a call that debited
\* nothing never refunds and none refunds twice.
C26_RefundOnceAfterDebit ==
    [][\A p \in Procs :
          StartStep(p) =>
              LET u == req[p].user
              IN /\ credits'[u] > credits[u] =>
                      /\ req[p].debited > 0 /\ req[p].refunded = 0
                      /\ credits'[u] = credits[u] + req[p].debited
                      /\ req'[p].refunded = req[p].debited
                      /\ req'[p].pc = "done"
                 /\ req'[p].refunded # req[p].refunded => credits'[u] > credits[u]
                 /\ req'[p].pc = "done" /\ req[p].debited = 0 =>
                      credits' = credits /\ req'[p].refunded = 0]_vars

\* a start_job call debited, failed to dispatch and refunded, and the caller holds
\* what they held at its arrival
C26_Witness ==
    \E p \in Procs :
        /\ Done(p, "start_job") /\ req[p].result = "DispatchFailure"
        /\ req[p].debited > 0 /\ req[p].refunded = req[p].debited
        /\ credits[req[p].user] = req[p].bal0

\* the step is taken by the upload_pdf or reupload_pdf call of slot p
UploadStep(p) == req'[p] # req[p] /\ req'[p].op \in UploadOps

\* C27: a step of an upload_pdf or reupload_pdf call lowers a balance only by
\* UPLOAD_COST, the caller's, and once a call; a call that succeeds has debited
\* UPLOAD_COST and refunded nothing; a call that fails in the store after its debit
\* ends with the step that gives UPLOAD_COST back to the caller; a call rejected
\* by a check of the file, of the page count or of the balance ends without having
\* changed a balance and no step of it creates or changes a job.
C27_UploadChargedOnce ==
    [][\A p \in Procs :
          UploadStep(p) =>
              LET r == req'[p]
                  u == r.user
              IN /\ \A v \in Users \ {u} : credits'[v] = credits[v]
                 /\ credits'[u] < credits[u] =>
                      /\ credits'[u] = credits[u] - UPLOAD_COST
                      /\ req[p].debited = 0 /\ r.debited = UPLOAD_COST
                 /\ jobs' # jobs => r.result = "Success"
                 /\ r.pc = "done" =>
                      CASE r.result = "Success" ->
                             /\ r.debited = UPLOAD_COST /\ r.refunded = 0
                             /\ credits' = credits
                             /\ jobs'[r.job].exists /\ jobs'[r.job].user_id = u
                             /\ jobs'[r.job].status = "uploaded"
                        [] r.result = "StoreFailure" ->
                             /\ r.debited = UPLOAD_COST /\ r.refunded = UPLOAD_COST
                             /\ credits'[u] = credits[u] + UPLOAD_COST
                        [] OTHER ->
                             /\ r.debited = 0 /\ r.refunded = 0
                             /\ credits' = credits]_vars

\* an upload_pdf call has created its job for UPLOAD_COST while a reupload_pdf call
\* of the same user failed in the store and was refunded: the user holds
\* UPLOAD_COST less than at the arrival of the upload
C27_Witness ==
    \E p, q \in Procs :
        /\ Done(p, "upload_pdf") /\ req[p].result = "Success"
        /\ jobs[req[p].job].exists
        /\ Done(q, "reupload_pdf") /\ req[q].result = "StoreFailure"
        /\ req[q].user = req[p].user
        /\ credits[req[p].user] = req[p].bal0 - UPLOAD_COST

----------------------------------------------------------------------------
(* Properties of the payments, under SpecPay *)

\* C29: whatever verify_payment calls are made for a reference, the payer holds at
\* most the purchased credits more than before them, and a call of another user
\* than the payer has added nothing.
C29_CreditedAtMostOnce ==
    /\ \A u \in Users :
          credits[u] <= SignupCredit +
              (IF u = payments[Reference].user_id THEN payments[Reference].credits
               ELSE 0)
    /\ \A p \in Procs :
          req[p].op = "verify_payment" /\ req[p].user # payments[Reference].user_id
          => req[p].credited = 0

----------------------------------------------------------------------------
(* Properties of the rate limiter, under SpecRate *)

\* C31: of the calls that incremented one counter, at most limit have returned
\* normally, and a call that has responded was rejected with too many requests
\* exactly when the value it got from the increment is above the limit.
C31_AtMostLimitServed ==
    /\ \A g \in DOMAIN redis.served : redis.served[g] <= redis.limit
    /\ \A p \in Procs :
          Done(p, "rate_limit") /\ req[p].result # "Stopped" =>
              (req[p].result = "TooManyRequests" <=> req[p].current > redis.limit)

\* limit calls on one counter were served and a further call on it was rejected
C31_Witness ==
    \E p \in Procs :
        /\ Done(p, "rate_limit") /\ req[p].result = "TooManyRequests"
        /\ req[p].gen = redis.gen
        /\ redis.served[redis.gen] = redis.limit
        /\ redis.limit = 2

\* C32: a counter that exists has an expiry, once the caller that created it is
\* past its expire step or has stopped.
C32_CounterHasExpiry ==
    redis.value > 0 =>
        \/ redis.ttl
        \/ \E p \in Procs : /\ req[p].op = "rate_limit" /\ req[p].pc = "expire"
                             /\ req[p].gen = redis.gen

----------------------------------------------------------------------------
(* Properties of merge_job_mp3s, under SpecMerge *)

\* C33: the merged file holds the audio of the pages in ascending numeric page
\* order (page 2 before page 10).
C33_MergedInPageOrder ==
    \A i, k \in DOMAIN blobs.final : i < k => blobs.final[i] < blobs.final[k]

----------------------------------------------------------------------------
(* Properties of cleanup_expired_files, under SpecCleanup *)

\* C34: a cleanup call deletes blobs only of jobs whose expires_at is earlier
\* than its now; the deleted_files count it reports is the number of blobs it
\* deleted, and every job whose deletion failed is in the errors it returns.
C34_CleanupReport ==
    \A p \in Procs :
        Done(p, "cleanup_expired_files") /\ req[p].result = "done" =>
            /\ \A path \in req[p].removed :
                  \E j \in DOMAIN jobs :
                      /\ jobs[j].remote_pdf_path = path
                      /\ jobs[j].expires_at # NoExpiry
                      /\ jobs[j].expires_at < req[p].now
            /\ req[p].deleted_count = Cardinality(req[p].removed)
            /\ \A j \in req[p].failed :
                  \E i \in DOMAIN req[p].errors : req[p].errors[i].job_id = j

----------------------------------------------------------------------------
(* Properties of build_playlist_response, under SpecPlaylist *)

\* no attempt to create the signed URL returned one
CreationFailed(attempts) == \A i \in DOMAIN attempts : attempts[i] # "url"

\* the attempts of a call of _safe_create_signed_url: a second one exactly when
\* the first one raised
OneRetry(attempts) ==
    /\ Len(attempts) \in {1, 2}
    /\ Len(attempts) = 2 <=> attempts[1] = "raise"

\* C35: the playlist returned lists pages of the job in strictly ascending
\* numeric order; a page of the job is absent from it exactly when the page has
\* no audio_path or no attempt to create its audio signed URL gave a URL, the
\* creation being retried once when it raised; a page whose sync signed URL
\* could not be created is listed with an empty sync_url.
C35_PlaylistOrderedAndComplete ==
    \A p \in Procs :
        Done(p, "build_playlist_response") =>
            LET pl == req[p].playlist
                pages == jobs[req[p].job].pages
                log == req[p].log
                LogOf(key) == log[CHOOSE n \in DOMAIN log : log[n].key = key]
                Listed(key) == \E i \in DOMAIN pl : pl[i].page = key
            IN /\ \A i, k \in DOMAIN pl :
                     i < k => KeyInt(pl[i].page) < KeyInt(pl[k].page)
               /\ \A n \in DOMAIN pages :
                     /\ \E m \in DOMAIN log : log[m].key = pages[n].key
                     /\ Listed(pages[n].key) <=>
                            ~(\/ pages[n].audio_path = <<>>
                              \/ CreationFailed(LogOf(pages[n].key).audio))
                     /\ pages[n].audio_path # <<>> =>
                            OneRetry(LogOf(pages[n].key).audio)
               /\ \A i \in DOMAIN pl :
                     LET page == PlaylistPageOf(jobs[req[p].job], pl[i].page)
                         sync == LogOf(pl[i].page).sync
                     IN /\ pl[i].audio_url = <<"signed">> \o page.audio_path
                        /\ pl[i].sync_url =
                              IF page.sync_path = <<>> \/ CreationFailed(sync)
                              THEN NoUrl
                              ELSE <<"signed">> \o page.sync_path
                        /\ page.sync_path # <<>> => OneRetry(sync)

\* pages 10, 2, 1 stored in this order: page 1 is left out after two failed
\* attempts, page 2 is listed before page 10, with an empty sync_url after a
\* failed creation, and the audio URL of page 10 came from the retry
C35_Witness ==
    /\ Done("p1", "build_playlist_response")
    /\ Len(jobs["j1"].pages) = 3
    /\ \A n \in 1..3 : jobs["j1"].pages[n].audio_path # <<>>
    /\ Len(req["p1"].playlist) = 2
    /\ req["p1"].playlist[1].page = <<2>>
    /\ req["p1"].playlist[2].page = <<1, 0>>
    /\ jobs["j1"].pages[2].sync_path # <<>>
    /\ req["p1"].playlist[1].sync_url = NoUrl
    /\ req["p1"].log[1].audio = <<"raise", "raise">>
    /\ req["p1"].log[3].audio = <<"raise", "url">>

====
